---- MODULE Spec2Model ----
(***************************************************************************)
(* HRPay: the asynchronous job-processing subsystem.                       *)
(*   - the payroll status state machine (utils/stateMachine)               *)
(*   - the payroll service (createPayroll / approvePayroll / payPayroll)   *)
(*   - the AMQP wrapper (channel registry, publisher, consumer engine)     *)
(*   - the payroll-generation and email job processors                     *)
(* Amounts are integer cents, hours are integer hundredths of an hour.     *)
(***************************************************************************)
EXTENDS Integers, Sequences, FiniteSets, TLC

\* ------------------------------------------------------------------ bounds
\* Messages already waiting in a consumed queue when the model starts.
MaxInitMsgs == 2
\* Service requests (createPayroll / approvePayroll / payPayroll) per run.
MaxReqs == 1
\* Jobs waiting in the payroll queue when its worker starts on a backlog.
MaxBacklog == 3
\* Calls of getOrCreateChannel per run of the channel registry.
MaxCalls == 3

\* ------------------------------------------------------ program constants
PAYROLL_JOB_QUEUE == "payroll.generate.details"
DEAD_LETTER_EXCHANGE == "dlx.exchange"
DEAD_LETTER_QUEUE == "dlx.payroll.generate.details"
\* createPayroll publishes to this string literal, not to the constant above.
CreatePayrollPublishQueue == "PAYROLL_JOB_QUEUE"
EmailQueueName == "email_job_queue"
EmailDeadLetterExchange == "email_job_dlx"
EmailDeadLetterQueueName == "email_job_dlx_queue"
PayrollWorkerConcurrency == 2
EmailWorkerConcurrency == 5
MAX_RETRIES == 5
maxReconnectAttempts == 10

PrimaryQueues == {PAYROLL_JOB_QUEUE, CreatePayrollPublishQueue, EmailQueueName}
DeadLetterQueues == {DEAD_LETTER_QUEUE, EmailDeadLetterQueueName}
QueueNames == PrimaryQueues \cup DeadLetterQueues

\* ------------------------------------------------------------- data model
PayrollStatus == {"DRAFT", "APPROVED", "PAID", "ERROR", "CANCELLED"}
NoRow == "NONE"
PayrollIds == {"P1", "P2"}
EmployeeIds == {"alice", "bob"}
\* An optional value: <<>> is null/undefined, <<x>> is x.
None == <<>>
Some(x) == <<x>>
IsSome(o) == Len(o) > 0
\* The company's employees: Alice is salaried, Bob is paid by the hour.
Employee ==
    [e \in EmployeeIds |->
        IF e = "alice"
        THEN [id |-> e, payType |-> "SALARY", salary |-> Some(300000), payRate |-> None]
        ELSE [id |-> e, payType |-> "HOURLY", salary |-> None, payRate |-> Some(2000)]]
\* Hours an existing EmployeePayroll row may carry when the model starts.
InitHours == 8000

MsgIds == 1..(MaxInitMsgs + MaxReqs)
ReqIds == 1..MaxReqs
\* Request slots, one more than the requests of a run: the slots of service
\* calls that run concurrently with one another.
ReqSlots == 1..(MaxReqs + 1)
AuditActionType == {"PAYROLL_GENERATED", "PAYROLL_QUEUE_FAILURE",
                    "PAYROLL_APPROVED", "PAYROLL_PAID"}
Procs == {"api", "worker"}
CallIds == 1..MaxCalls
\* Each call creates at most one channel.
ChanIds == 1..MaxCalls
NoChannel == 0
Workers == {"payroll", "email"}

VARIABLES
    payrollStatus,    \* payrolls.status per payroll id, NoRow when there is no row
    payrollTotals,    \* payrolls.totalGross / totalNet per payroll id
    employeePayroll,  \* employee_payrolls rows per payroll id
    auditLog,         \* number of audit_logs rows per <<actionType, payrollId>>
    employeeActive,   \* the employees with isActive = true
    queues,           \* broker: messages waiting in each queue
    qArgs,            \* broker: how each queue is declared
    bindings,         \* broker: dead-letter bindings <<exchange, key, queue>>
    consumers,        \* broker: prefetch of the consumer on each queue, 0 = none
    handlers,         \* delivered messages and the position of their callback
    settled,          \* how each message was settled: none / ack / nack / requeue
    lost,             \* messages the broker discarded on nack (no dead-letter route)
    connection,       \* AMQPWrapper.connection per process (TRUE = not null)
    channels,         \* AMQPWrapper.channels per process: queues with a cached channel
    workerPc,         \* position of startPayrollJobProcessor / startEmailJobProcessor
    reconnectTimeout, \* AMQPWrapper.reconnectTimeout per process (TRUE = a timer is armed)
    reconnectAttempts,   \* AMQPWrapper.reconnectAttempts per process
    isExplicitlyClosing, \* AMQPWrapper.isExplicitlyClosing per process
    connecting,       \* calls of connect() waiting for amqp.connect, per process
    emitted,          \* the last event the wrapper emitted, per process
    attemptsMade,     \* reconnect attempts started since the last successful connect
    closePc,          \* position of close() per process: idle / closing
    registry,         \* AMQPWrapper.channels of the api process: the channel cached per queue
    chans,            \* the channels createChannel returned: state, and the queue its listeners name
    calls,            \* calls of getOrCreateChannel in the api process and their position
    reqs,             \* payroll service calls in flight
    sendCalls,        \* emailService send invocations per message
    handlerWrites,    \* database writes made by the job handler per message
    vIn, vOut         \* state machine probe: <<function, arguments>>, the outcome

dbVars == <<payrollStatus, payrollTotals, employeePayroll, auditLog, employeeActive>>
brokerVars == <<queues, qArgs, bindings, consumers, handlers, settled, lost>>
managerVars == <<reconnectTimeout, reconnectAttempts, isExplicitlyClosing, connecting,
                 emitted, attemptsMade, closePc, registry, chans, calls>>
wrapperVars == <<connection, channels, workerPc, managerVars>>
probeVars == <<vIn, vOut>>
vars == <<payrollStatus, payrollTotals, employeePayroll, auditLog, employeeActive,
          queues, qArgs, bindings, consumers, handlers, settled, lost,
          connection, channels, workerPc, reconnectTimeout, reconnectAttempts,
          isExplicitlyClosing, connecting, emitted, attemptsMade, closePc,
          registry, chans, calls,
          reqs, sendCalls, handlerWrites, vIn, vOut>>

\* ------------------------------------------------- payroll state machine
validTransitions ==
    [s \in PayrollStatus |->
        CASE s = "DRAFT" -> {"APPROVED"}
          [] s = "APPROVED" -> {"PAID"}
          [] OTHER -> {}]

Returned == <<"ok">>
ApiError(msg, a, b) == <<"ApiError", msg, a, b>>

\* Mutant: validatePayrollTransition without the same-state shortcut.
validatePayrollTransitionNoShortcut(currentStatus, nextStatus) ==
    IF nextStatus \notin validTransitions[currentStatus]
    THEN ApiError("Invalid payroll transition", currentStatus, nextStatus)
    ELSE Returned

validatePayrollTransition(currentStatus, nextStatus) ==
    IF currentStatus = nextStatus
    THEN Returned
    ELSE IF nextStatus \notin validTransitions[currentStatus]
         THEN ApiError("Invalid payroll transition", currentStatus, nextStatus)
         ELSE Returned

assertPayrollStatus(status, expectedStatus) ==
    IF status # expectedStatus
    THEN ApiError("Payroll must be in status", expectedStatus, status)
    ELSE Returned

\* ------------------------------------------------------------ the broker
Undeclared == [declared |-> FALSE, dlx |-> "", rk |-> ""]
PlainDurable == [declared |-> TRUE, dlx |-> "", rk |-> ""]
WithDeadLetter(exchange, key) == [declared |-> TRUE, dlx |-> exchange, rk |-> key]

\* queue.declare: a new queue takes the arguments given; an existing queue must
\* have been declared with the same arguments (else PRECONDITION_FAILED).
AssertQueueOk(q, args) == ~qArgs[q].declared \/ qArgs[q] = args

\* Where the broker routes a message rejected without requeue on queue q.
DeadLetterTargets(q) ==
    {b[3] : b \in {c \in bindings : c[1] = qArgs[q].dlx /\ c[2] = qArgs[q].rk}}

Enqueue(qs, targets, msg) ==
    [x \in QueueNames |-> IF x \in targets THEN Append(qs[x], msg) ELSE qs[x]]

\* basic.nack(requeue): back to the queue, or dead-lettered, or discarded.
QueuesAfterNack(qs, q, msg, requeue) ==
    IF requeue THEN [qs EXCEPT ![q] = <<msg>> \o @]
    ELSE Enqueue(qs, DeadLetterTargets(q), msg)

LostAfterNack(q, msg, requeue) ==
    IF ~requeue /\ DeadLetterTargets(q) = {} THEN lost \cup {msg.id} ELSE lost

\* ------------------------------------------------- wire format (UTF-8 JSON)
JSONstringify(payload) == [wellFormed |-> TRUE, value |-> payload]
MalformedBody == [wellFormed |-> FALSE, value |-> [payrollId |-> "-"]]
JSONparseThrows(body) == ~body.wellFormed
JSONparse(body) == body.value

\* --------------------------------------------- AMQPWrapper: channel registry
\* Mutant: getOrCreateChannel without the connection check.
getOrCreateChannelThrowsUnchecked(p, q, chanOk) ==
    /\ q \notin channels[p]
    /\ (~chanOk \/ ~AssertQueueOk(q, PlainDurable))

\* getOrCreateChannel(queue) raises when there is no connection, when the broker
\* refuses the channel, or when the durable assert is refused.
getOrCreateChannelThrows(p, q, chanOk) ==
    \/ ~connection[p]
    \/ /\ q \notin channels[p]
       /\ (~chanOk \/ ~AssertQueueOk(q, PlainDurable))

channelsAfterGet(p, q, chanOk) ==
    IF getOrCreateChannelThrows(p, q, chanOk)
    THEN channels
    ELSE [channels EXCEPT ![p] = @ \cup {q}]

qArgsAfterGet(p, q, chanOk) ==
    IF getOrCreateChannelThrows(p, q, chanOk) \/ q \in channels[p]
    THEN qArgs
    ELSE [qArgs EXCEPT ![q] = PlainDurable]

\* ------------------------------------- AMQPWrapper: getOrCreateChannel by steps
\* The registry of the api process with the channels as objects: a call of
\* getOrCreateChannel(queue) awaits createChannel and then assertQueue, and
\* other calls and channel events run while it waits.
UnusedChannel == [state |-> "unused", queue |-> "-"]
IdleCall == [pc |-> "idle", queue |-> "-", chan |-> NoChannel]
\* The queues the api process publishes to.
RegistryQueues == {EmailQueueName, CreatePayrollPublishQueue}

\* The queues with a cached channel, as `channels` records them.
channelsOfRegistry(reg) ==
    [channels EXCEPT !["api"] = {q \in QueueNames : reg[q] # NoChannel}]

\* handleChannelError(queue) / handleChannelClose(queue), called by the
\* listeners of channel ch: this.channels.delete(queue)
registryAfterChannelEvent(ch) == [registry EXCEPT ![chans[ch].queue] = NoChannel]

RegistryFrame == UNCHANGED <<dbVars, queues, bindings, consumers, handlers, settled, lost,
                             connection, workerPc, reconnectTimeout, reconnectAttempts,
                             isExplicitlyClosing, connecting, emitted, attemptsMade,
                             closePc, reqs, sendCalls, handlerWrites, probeVars>>

\* getOrCreateChannel(queue) up to its first await: it throws without a
\* connection, returns the cached channel, or calls createChannel.
getOrCreateChannelBegins(c, q) ==
    /\ calls[c].pc = "idle"
    /\ \A c2 \in CallIds : c2 < c => calls[c2].pc # "idle"
    /\ calls' = [calls EXCEPT ![c] =
           IF ~connection["api"]
           THEN [pc |-> "threw", queue |-> q, chan |-> NoChannel]
           ELSE IF registry[q] # NoChannel
           THEN [pc |-> "done", queue |-> q, chan |-> registry[q]]
           ELSE [pc |-> "creating", queue |-> q, chan |-> NoChannel]]
    /\ UNCHANGED <<registry, chans, channels, qArgs>>
    /\ RegistryFrame

\* createChannel resolves: the listeners are registered with the queue name
\* and assertQueue is called; or it rejects and the call throws.
createChannelResolves(c, ok) ==
    /\ calls[c].pc = "creating"
    /\ IF ok
       THEN LET ch == CHOOSE x \in ChanIds :
                          /\ chans[x].state = "unused"
                          /\ \A y \in ChanIds : chans[y].state = "unused" => x <= y
            IN  /\ chans' = [chans EXCEPT ![ch] =
                       [state |-> "open", queue |-> calls[c].queue]]
                /\ calls' = [calls EXCEPT ![c].pc = "asserting", ![c].chan = ch]
       ELSE /\ calls' = [calls EXCEPT ![c].pc = "threw"]
            /\ UNCHANGED chans
    /\ UNCHANGED <<registry, channels, qArgs>>
    /\ RegistryFrame

\* assertQueue(queue, {durable: true}) resolves: the channel is cached and
\* returned; or the broker refuses it, which closes the channel (its listeners
\* run) and the call throws.
assertQueueResolves(c, ok) ==
    LET q == calls[c].queue
        ch == calls[c].chan
    IN  /\ calls[c].pc = "asserting"
        /\ IF ok /\ chans[ch].state = "open" /\ AssertQueueOk(q, PlainDurable)
           THEN /\ qArgs' = [qArgs EXCEPT ![q] = PlainDurable]
                /\ registry' = [registry EXCEPT ![q] = ch]
                /\ calls' = [calls EXCEPT ![c].pc = "done"]
                /\ UNCHANGED chans
           ELSE /\ registry' = IF chans[ch].state = "open"
                               THEN registryAfterChannelEvent(ch) ELSE registry
                /\ chans' = [chans EXCEPT ![ch].state = "closed"]
                /\ calls' = [calls EXCEPT ![c].pc = "threw"]
                /\ UNCHANGED qArgs
        /\ channels' = channelsOfRegistry(registry')
        /\ RegistryFrame

\* An open channel emits 'error' and 'close', or 'close' alone (the broker
\* or the network closed it): its listeners run.
ChannelEmitsClose(ch) ==
    /\ chans[ch].state = "open"
    /\ chans' = [chans EXCEPT ![ch].state = "closed"]
    /\ registry' = registryAfterChannelEvent(ch)
    /\ channels' = channelsOfRegistry(registry')
    /\ UNCHANGED <<calls, qArgs>>
    /\ RegistryFrame

\* --------------------------------------------------- AMQPWrapper: publisher
\* publishMessage returns false exactly when something inside raised; the
\* result of sendToQueue (bufferOk) is only logged.
\* Mutant: the catch block of publishMessage also returns true.
publishMessageAlwaysTrue(p, q, chanOk, bufferOk) == TRUE

publishMessageResult(p, q, chanOk, bufferOk) ==
    IF getOrCreateChannelThrows(p, q, chanOk) THEN FALSE ELSE TRUE

queuesAfterPublish(p, q, chanOk, msg) ==
    IF getOrCreateChannelThrows(p, q, chanOk)
    THEN queues
    ELSE [queues EXCEPT ![q] = Append(@, msg)]

\* --------------------------------------------- AMQPWrapper: consumer engine
\* What the consume callback does with each outcome.
\* Mutant: the callback rejects with requeue = true.
NackRequeueTrue == TRUE

\* channel.nack(msg, false, requeue)
NackRequeue == FALSE
OnParseError == "nack"
\* Mutant: the callback honours the boolean the handler returns.
OnHandlerReturnByValue(value) == IF value = "true" THEN "ack" ELSE "nack"
\* Mutant: the callback rejects whatever the handler returns.
OnHandlerReturnNack(value) == "nack"

\* await callback(messageContent); channel.ack(msg)
OnHandlerReturn(value) == "ack"
\* Mutant: the callback acks when the handler throws.
OnHandlerThrowAck == "ack"

\* catch (processingError): channel.nack(msg, false, false)
OnHandlerThrow == "nack"

Unsettled(q) == {m \in MsgIds : handlers[m].pc # "idle" /\ handlers[m].q = q
                                 /\ settled[m] = "none"}

\* atDelivery records the payroll status when the message was delivered;
\* channelOpen whether the channel the message was delivered on is still open;
\* ackCalls / nackCalls the calls of channel.ack / channel.nack the callback
\* made for the message.
IdleHandler == [pc |-> "idle", q |-> "", body |-> MalformedBody, invoked |-> FALSE,
                result |-> "none", emps |-> {}, hours |-> None, atDelivery |-> "-",
                channelOpen |-> TRUE, ackCalls |-> 0, nackCalls |-> 0]

\* The calls of channel.ack and channel.nack the callback makes when it
\* settles with `how`. On a closed channel both calls raise: channel.ack(msg)
\* sits inside the try, so its exception reaches the catch block, which calls
\* channel.nack(msg, false, false).
settleCalls(how, open) ==
    IF how = "ack"
    THEN IF open THEN [ack |-> 1, nack |-> 0] ELSE [ack |-> 1, nack |-> 1]
    ELSE [ack |-> 0, nack |-> 1]

\* The callback settles message m (delivered on q) with `how`, given the
\* queues as they are after any change of this step.
SettleWith(m, q, body, how, qs) ==
    LET msg == [id |-> m, body |-> body]
    IN  IF ~handlers[m].channelOpen
        THEN \* ack / nack raise on a closed channel: nothing reaches the broker
             /\ settled' = settled
             /\ queues' = qs
             /\ lost' = lost
        ELSE IF how = "ack"
        THEN /\ settled' = [settled EXCEPT ![m] = "ack"]
             /\ queues' = qs
             /\ lost' = lost
        ELSE /\ settled' = [settled EXCEPT ![m] = IF NackRequeue THEN "requeue" ELSE "nack"]
             /\ queues' = QueuesAfterNack(qs, q, msg, NackRequeue)
             /\ lost' = LostAfterNack(q, msg, NackRequeue)

\* ------------------------------------------ AMQPWrapper: connection manager
\* Mutant: scheduleReconnect gives up one attempt late.
attemptsExhaustedLate(p) == reconnectAttempts[p] > maxReconnectAttempts

\* scheduleReconnect: the check that stops the loop.
attemptsExhausted(p) == reconnectAttempts[p] >= maxReconnectAttempts

\* scheduleReconnect(): nothing when closing or when a timer is armed; the
\* 'failed' event when the attempts are used up; else one more attempt, armed.
scheduleReconnect(p) ==
    IF isExplicitlyClosing[p] \/ reconnectTimeout[p]
    THEN UNCHANGED <<reconnectTimeout, reconnectAttempts, emitted>>
    ELSE IF attemptsExhausted(p)
    THEN /\ emitted' = [emitted EXCEPT ![p] = "failed"]
         /\ UNCHANGED <<reconnectTimeout, reconnectAttempts>>
    ELSE /\ reconnectAttempts' = [reconnectAttempts EXCEPT ![p] = @ + 1]
         /\ reconnectTimeout' = [reconnectTimeout EXCEPT ![p] = TRUE]
         /\ UNCHANGED emitted

\* connect() up to its await: it returns at once when there is a connection
\* or when closing (as the flag will be after this step), else amqp.connect
\* is called.
connectStarts(p, closing) == ~connection[p] /\ ~closing

ManagerFrame == UNCHANGED <<dbVars, queues, qArgs, bindings, handlers, settled, lost,
                            workerPc, registry, chans, calls, reqs, sendCalls,
                            handlerWrites, probeVars>>

\* initialize(), called at startup or after close() while nothing is pending.
initialize(p) ==
    /\ ~connection[p] /\ connecting[p] = 0 /\ ~reconnectTimeout[p] /\ closePc[p] = "idle"
    /\ isExplicitlyClosing' = [isExplicitlyClosing EXCEPT ![p] = FALSE]
    /\ connecting' = [connecting EXCEPT ![p] = IF connectStarts(p, FALSE) THEN @ + 1 ELSE @]
    /\ UNCHANGED <<connection, channels, consumers, reconnectTimeout, reconnectAttempts,
                   emitted, attemptsMade, closePc>>
    /\ ManagerFrame

\* The reconnect timer fires: the callback clears the timer and calls connect().
ReconnectTimerFires(p) ==
    /\ reconnectTimeout[p]
    /\ reconnectTimeout' = [reconnectTimeout EXCEPT ![p] = FALSE]
    /\ connecting' = [connecting EXCEPT
           ![p] = IF connectStarts(p, isExplicitlyClosing[p]) THEN @ + 1 ELSE @]
    /\ attemptsMade' = [attemptsMade EXCEPT
           ![p] = IF connectStarts(p, isExplicitlyClosing[p])
                     /\ @ < maxReconnectAttempts + 2 THEN @ + 1 ELSE @]
    /\ UNCHANGED <<connection, channels, consumers, reconnectAttempts, isExplicitlyClosing,
                   emitted, closePc>>
    /\ ManagerFrame

\* amqp.connect resolves (ok) or rejects: the rest of connect().
ConnectResolves(p, ok) ==
    /\ connecting[p] > 0
    /\ connecting' = [connecting EXCEPT ![p] = @ - 1]
    /\ IF ok
       THEN /\ connection' = [connection EXCEPT ![p] = TRUE]
            /\ emitted' = [emitted EXCEPT ![p] = "connected"]
            /\ reconnectAttempts' = [reconnectAttempts EXCEPT ![p] = 0]
            /\ reconnectTimeout' = [reconnectTimeout EXCEPT ![p] = FALSE]
            /\ attemptsMade' = [attemptsMade EXCEPT ![p] = 0]
       ELSE /\ connection' = [connection EXCEPT ![p] = FALSE]
            /\ scheduleReconnect(p)
            /\ UNCHANGED attemptsMade
    /\ UNCHANGED <<channels, consumers, isExplicitlyClosing, closePc>>
    /\ ManagerFrame

\* handleConnectionClose: this.channels.clear()
channelsAfterCloseEvent(p) == [channels EXCEPT ![p] = {}]

\* The broker cancels the consumers of a connection that went away (the
\* workers run in the process "worker").
consumersAfterConnectionLoss(p) ==
    IF p = "worker" THEN [q \in QueueNames |-> 0] ELSE consumers

\* The connection emits 'close' (the broker or the network dropped it, or
\* close() is closing it): handleConnectionClose(). The event is taken while
\* no delivery of the process is unsettled.
handleConnectionClose(p) ==
    /\ connection[p]
    /\ \A q \in QueueNames : Unsettled(q) = {}
    /\ IF isExplicitlyClosing[p]
       THEN UNCHANGED <<connection, channels, consumers, reconnectTimeout,
                        reconnectAttempts, emitted>>
       ELSE /\ connection' = [connection EXCEPT ![p] = FALSE]
            /\ channels' = channelsAfterCloseEvent(p)
            /\ consumers' = consumersAfterConnectionLoss(p)
            /\ scheduleReconnect(p)
    /\ UNCHANGED <<isExplicitlyClosing, connecting, attemptsMade, closePc>>
    /\ ManagerFrame

\* Mutant: close() leaves a pending reconnect timer armed.
timeoutAfterCloseKept(p) == reconnectTimeout

\* close(): clearTimeout(this.reconnectTimeout); this.reconnectTimeout = null
timeoutAfterClose(p) == [reconnectTimeout EXCEPT ![p] = FALSE]

\* close() up to its first await: the flag, the timer, the channels closing.
closeBegins(p) ==
    /\ closePc[p] = "idle"
    /\ \A q \in QueueNames : Unsettled(q) = {}
    /\ isExplicitlyClosing' = [isExplicitlyClosing EXCEPT ![p] = TRUE]
    /\ reconnectTimeout' = timeoutAfterClose(p)
    /\ closePc' = [closePc EXCEPT ![p] = "closing"]
    /\ UNCHANGED <<connection, channels, consumers, reconnectAttempts, connecting,
                   emitted, attemptsMade>>
    /\ ManagerFrame

\* close() after the channels are closed: the registry is cleared, the
\* connection closed and forgotten, 'closed' emitted.
closeEnds(p) ==
    /\ closePc[p] = "closing"
    /\ closePc' = [closePc EXCEPT ![p] = "idle"]
    /\ channels' = [channels EXCEPT ![p] = {}]
    /\ connection' = [connection EXCEPT ![p] = FALSE]
    /\ consumers' = IF connection[p] THEN consumersAfterConnectionLoss(p) ELSE consumers
    /\ emitted' = [emitted EXCEPT ![p] = "closed"]
    /\ UNCHANGED <<reconnectTimeout, reconnectAttempts, isExplicitlyClosing, connecting,
                   attemptsMade>>
    /\ ManagerFrame

\* ---------------------------------------- payroll job: calculateEmployeeGrossPay
\* Mutant: toDecimalPlaces truncating instead of rounding half up.
RoundDown(x, unit) == x \div unit

\* Decimal.toDecimalPlaces under the library's default rounding (half up), for
\* a non-negative x counted in 1/unit of the result's unit.
RoundHalfUp(x, unit) == (x + (unit \div 2)) \div unit

calculateEmployeeGrossPay(employee, hoursWorked) ==
    IF employee.payType = "SALARY" /\ IsSome(employee.salary)
    THEN [grossPay |-> employee.salary[1], hoursInfo |-> None]
    ELSE IF employee.payType = "HOURLY" /\ IsSome(employee.payRate) /\ IsSome(hoursWorked)
         THEN [grossPay |-> RoundHalfUp(hoursWorked[1] * employee.payRate[1], 100),
               hoursInfo |-> Some(hoursWorked[1])]
         ELSE [grossPay |-> 0, hoursInfo |-> None]

\* Mutant: DRAFT is not among the statuses the handler skips.
finalStatusesWithoutDraft == {"APPROVED", "PAID", "ERROR"}

\* Mutant: the handler skips no status at its first check.
finalStatusesNone == {}

\* The statuses the generation handler treats as already resolved.
finalStatuses == {"DRAFT", "APPROVED", "PAID", "ERROR"}

\* Mutant: the second status check inverted.
notInDraftInverted(status) == status = "DRAFT"

\* The second status check of the handler: stop unless the payroll is DRAFT.
notInDraft(status) == status # "DRAFT"

\* Mutant: the row stores the gross amount in the hours column.
employeePayrollDetailStoresGross(e, hoursWorked) ==
    LET pay == calculateEmployeeGrossPay(Employee[e],
                   IF Employee[e].payType = "HOURLY" THEN hoursWorked ELSE None)
    IN  [employeeId |-> e,
         grossAmount |-> pay.grossPay,
         netAmount |-> pay.grossPay,
         regularHoursWorked |->
             IF IsSome(pay.hoursInfo) /\ pay.hoursInfo[1] # 0
             THEN Some(pay.grossPay) ELSE None]

\* The EmployeePayroll row the generation loop builds for an employee record:
\* hours are looked up for HOURLY employees only, netPay = grossPay.
employeePayrollLine(employee, hoursWorked) ==
    LET pay == calculateEmployeeGrossPay(employee,
                   IF employee.payType = "HOURLY" THEN hoursWorked ELSE None)
    IN  [employeeId |-> employee.id,
         grossAmount |-> pay.grossPay,
         netAmount |-> pay.grossPay,
         regularHoursWorked |->
             IF IsSome(pay.hoursInfo) /\ pay.hoursInfo[1] # 0 THEN pay.hoursInfo ELSE None]

\* The EmployeePayroll row the handler builds for one employee.
employeePayrollDetail(e, hoursWorked) == employeePayrollLine(Employee[e], hoursWorked)

employeePayrollDetails(emps, hoursWorked) ==
    {employeePayrollDetail(e, hoursWorked) : e \in emps}

RECURSIVE SumGross(_)
SumGross(rows) ==
    IF rows = {} THEN 0
    ELSE LET r == CHOOSE x \in rows : TRUE
         IN  r.grossAmount + SumGross(rows \ {r})

RECURSIVE SumNet(_)
SumNet(rows) ==
    IF rows = {} THEN 0
    ELSE LET r == CHOOSE x \in rows : TRUE
         IN  r.netAmount + SumNet(rows \ {r})

\* findFirst({payrollId, employeeId}).regularHoursWorked among the payroll's
\* rows, as line 100 reads it.
hoursInRows(payrollRows, e) ==
    LET rows == {r \in payrollRows : r.employeeId = e}
    IN  IF rows = {} THEN None ELSE (CHOOSE r \in rows : TRUE).regularHoursWorked

hoursOnFile(p, e) == hoursInRows(employeePayroll[p], e)

\* The rows one pass of the generation loop builds for the employees emps when
\* the payroll's rows are payrollRows, and the totals it accumulates.
generatedLines(payrollRows, emps) ==
    employeePayrollDetails(emps,
        IF \E e \in emps : Employee[e].payType = "HOURLY"
        THEN hoursInRows(payrollRows, CHOOSE e \in emps : Employee[e].payType = "HOURLY")
        ELSE None)

generatedTotals(lines) == [totalGross |-> SumGross(lines), totalNet |-> SumNet(lines)]

\* Mutant: the lines are replaced while the totals and the audit entry are not
\* written.
generationWriteLinesOnly(emps, hoursWorked, totalsBefore) ==
    [lines |-> employeePayrollDetails(emps, hoursWorked),
     totals |-> totalsBefore,
     status |-> "DRAFT",
     auditEntries |-> 0]

\* What the handler's $transaction applies in one piece: the payroll's lines
\* replaced (deleteMany, createMany), the totals and the status updated, one
\* PAYROLL_GENERATED entry created. totalsBefore is what the row held.
generationWrite(emps, hoursWorked, totalsBefore) ==
    LET details == employeePayrollDetails(emps, hoursWorked)
    IN  [lines |-> details,
         totals |-> [totalGross |-> SumGross(details), totalNet |-> SumNet(details)],
         status |-> "DRAFT",
         auditEntries |-> 1]

\* ------------------------------------------ consumer engine: one delivery
\* The broker hands the head of q to the consume callback (prefetch permitting);
\* the callback parses the body and either rejects it or starts the handler,
\* which runs up to its first database read.
DeliverPayroll ==
    LET q == PAYROLL_JOB_QUEUE IN
    /\ consumers[q] > 0
    /\ queues[q] # <<>>
    /\ Cardinality(Unsettled(q)) < consumers[q]
    /\ LET msg == Head(queues[q])
           m == msg.id
           rest == [queues EXCEPT ![q] = Tail(@)]
       IN  IF JSONparseThrows(msg.body)
           THEN /\ handlers' = [handlers EXCEPT ![m] =
                        [IdleHandler EXCEPT !.pc = "done", !.q = q, !.body = msg.body,
                                            !.ackCalls = settleCalls(OnParseError, TRUE).ack,
                                            !.nackCalls = settleCalls(OnParseError, TRUE).nack]]
                /\ SettleWith(m, q, msg.body, OnParseError, rest)
           ELSE /\ handlers' = [handlers EXCEPT ![m] =
                        [IdleHandler EXCEPT !.pc = "read1", !.q = q, !.body = msg.body,
                                            !.invoked = TRUE,
                                            !.atDelivery =
                                                payrollStatus[JSONparse(msg.body).payrollId]]]
                /\ queues' = rest
                /\ UNCHANGED <<settled, lost>>
    /\ UNCHANGED <<dbVars, qArgs, bindings, consumers, wrapperVars, reqs,
                   sendCalls, handlerWrites, probeVars>>

\* The handler's promise resolves with `value`: the callback settles the message.
HandlerReturns(m, value) ==
    /\ handlers' = [handlers EXCEPT
           ![m].pc = "done", ![m].result = value,
           ![m].ackCalls = settleCalls(OnHandlerReturn(value), handlers[m].channelOpen).ack,
           ![m].nackCalls = settleCalls(OnHandlerReturn(value), handlers[m].channelOpen).nack]
    /\ SettleWith(m, handlers[m].q, handlers[m].body, OnHandlerReturn(value), queues)

\* The handler's promise rejects: the callback settles the message.
HandlerThrows(m) ==
    /\ handlers' = [handlers EXCEPT
           ![m].pc = "done", ![m].result = "threw",
           ![m].ackCalls = settleCalls(OnHandlerThrow, handlers[m].channelOpen).ack,
           ![m].nackCalls = settleCalls(OnHandlerThrow, handlers[m].channelOpen).nack]
    /\ SettleWith(m, handlers[m].q, handlers[m].body, OnHandlerThrow, queues)

HandlerGoes(m, pc) ==
    /\ handlers' = [handlers EXCEPT ![m].pc = pc]
    /\ UNCHANGED <<queues, settled, lost>>

\* handleChannelError / handleChannelClose: this.channels.delete(queue)
channelsAfterChannelEvent(p, q) == [channels EXCEPT ![p] = @ \ {q}]

\* The unsettled deliveries of q in the order of their ids, as the broker
\* puts them back when their channel goes away.
RECURSIVE InIdOrder(_)
InIdOrder(ms) ==
    IF ms = {} THEN <<>>
    ELSE LET m == CHOOSE x \in ms : \A y \in ms : x <= y
         IN  <<[id |-> m, body |-> handlers[m].body]>> \o InIdOrder(ms \ {m})

\* The channel the worker consumes q on closes while callbacks may be running
\* (the broker or the network closed it): the channel emits 'close', the
\* registry forgets it, the broker cancels the consumer and puts the
\* unsettled deliveries back in the queue.
ChannelCloses(q) ==
    /\ connection["worker"]
    /\ consumers[q] > 0
    /\ handlers' = [m \in MsgIds |->
           IF m \in Unsettled(q) THEN [handlers[m] EXCEPT !.channelOpen = FALSE]
           ELSE handlers[m]]
    /\ queues' = [queues EXCEPT ![q] = InIdOrder(Unsettled(q)) \o @]
    /\ consumers' = [consumers EXCEPT ![q] = 0]
    /\ channels' = channelsAfterChannelEvent("worker", q)
    /\ UNCHANGED <<dbVars, qArgs, bindings, settled, lost, connection, workerPc,
                   managerVars, reqs, sendCalls, handlerWrites, probeVars>>

\* --------------------------------- payroll job: processGeneratePayrollJob
\* One step of the handler for message m, from one await to the next.
\* dbFails: the database call of this step raises.
processGeneratePayrollJob(m, dbFails) ==
    LET payrollId == JSONparse(handlers[m].body).payrollId
        status == payrollStatus[payrollId]
        pc == handlers[m].pc
        noDb == UNCHANGED <<payrollStatus, payrollTotals, employeePayroll, auditLog,
                            handlerWrites>>
    IN
    /\ pc \in {"read1", "read2", "hours", "zero", "tx", "catch"}
    /\ CASE pc = "read1" ->
            \* findUnique(select status), outside the try block
            /\ noDb
            /\ IF dbFails THEN HandlerThrows(m)
               ELSE IF status = NoRow THEN HandlerReturns(m, "false")
               ELSE IF status \in finalStatuses THEN HandlerReturns(m, "true")
               ELSE HandlerGoes(m, "read2")
         [] pc = "read2" ->
            \* findUnique(include company.employees)
            /\ noDb
            /\ IF dbFails THEN HandlerGoes(m, "catch")
               ELSE IF status = NoRow \/ notInDraft(status) THEN HandlerReturns(m, "false")
               ELSE IF employeeActive = {}
                    THEN HandlerGoes(m, "zero")
                    ELSE /\ handlers' = [handlers EXCEPT
                                ![m].pc = IF \E e \in employeeActive :
                                                 Employee[e].payType = "HOURLY"
                                          THEN "hours" ELSE "tx",
                                ![m].emps = employeeActive]
                         /\ UNCHANGED <<queues, settled, lost>>
         [] pc = "hours" ->
            \* employeePayroll.findFirst for the hourly employee
            /\ noDb
            /\ IF dbFails THEN HandlerGoes(m, "catch")
               ELSE /\ handlers' = [handlers EXCEPT
                           ![m].pc = "tx",
                           ![m].hours = hoursOnFile(payrollId,
                               CHOOSE e \in handlers[m].emps :
                                   Employee[e].payType = "HOURLY")]
                    /\ UNCHANGED <<queues, settled, lost>>
         [] pc = "zero" ->
            \* payroll.update({totalGross: 0, totalNet: 0, status: DRAFT})
            IF dbFails \/ status = NoRow
            THEN noDb /\ HandlerGoes(m, "catch")
            ELSE /\ payrollTotals' = [payrollTotals EXCEPT
                        ![payrollId] = [totalGross |-> 0, totalNet |-> 0]]
                 /\ payrollStatus' = [payrollStatus EXCEPT ![payrollId] = "DRAFT"]
                 /\ handlerWrites' = [handlerWrites EXCEPT ![m] = @ + 1]
                 /\ UNCHANGED <<employeePayroll, auditLog>>
                 /\ HandlerReturns(m, "true")
         [] pc = "tx" ->
            \* $transaction([deleteMany, createMany, payroll.update, auditLog.create])
            IF dbFails \/ status = NoRow
            THEN noDb /\ HandlerGoes(m, "catch")
            ELSE LET w == generationWrite(handlers[m].emps, handlers[m].hours,
                                          payrollTotals[payrollId])
                 IN  /\ employeePayroll' = [employeePayroll EXCEPT ![payrollId] = w.lines]
                     /\ payrollTotals' = [payrollTotals EXCEPT ![payrollId] = w.totals]
                     /\ payrollStatus' = [payrollStatus EXCEPT ![payrollId] = w.status]
                     /\ auditLog' = [auditLog EXCEPT
                            ![<<"PAYROLL_GENERATED", payrollId>>] = @ + w.auditEntries]
                     /\ handlerWrites' = [handlerWrites EXCEPT ![m] = @ + 1]
                     /\ HandlerReturns(m, "true")
         [] pc = "catch" ->
            \* re-read the status to decide the outcome
            /\ noDb
            /\ IF dbFails THEN HandlerThrows(m)
               ELSE IF status # NoRow /\ status \in finalStatuses
                    THEN HandlerReturns(m, "true")
                    ELSE HandlerThrows(m)
    /\ UNCHANGED <<employeeActive, qArgs, bindings, consumers, wrapperVars, reqs,
                   sendCalls, probeVars>>

\* ------------------------------------------- topology: setupQueueWithDLX
\* Declares the dead-letter exchange, the dead-letter queue bound to it under
\* the routing key, and the primary queue carrying the dead-letter arguments;
\* the channel it used is the registry's channel of the primary queue.
setupQueueWithDLXThrows(p, queueName, dlx, dlq, key) ==
    \/ ~connection[p]
    \/ ~AssertQueueOk(dlq, PlainDurable)
    \/ ~AssertQueueOk(queueName, WithDeadLetter(dlx, key))

setupQueueWithDLX(p, queueName, dlx, dlq, key) ==
    /\ qArgs' = [qArgs EXCEPT ![dlq] = PlainDurable,
                              ![queueName] = WithDeadLetter(dlx, key)]
    /\ bindings' = bindings \cup {<<dlx, key, dlq>>}
    /\ channels' = [channels EXCEPT ![p] = @ \cup {queueName}]

WorkerQueue(w) == IF w = "payroll" THEN PAYROLL_JOB_QUEUE ELSE EmailQueueName
WorkerExchange(w) == IF w = "payroll" THEN DEAD_LETTER_EXCHANGE ELSE EmailDeadLetterExchange
WorkerDeadLetterQueue(w) ==
    IF w = "payroll" THEN DEAD_LETTER_QUEUE ELSE EmailDeadLetterQueueName
\* deadLetterRoutingKey: both workers pass the name of the primary queue.
WorkerRoutingKey(w) == WorkerQueue(w)
WorkerConcurrency(w) ==
    IF w = "payroll" THEN PayrollWorkerConcurrency ELSE EmailWorkerConcurrency

\* startPayrollJobProcessor / startEmailJobProcessor, first await.
WorkerSetup(w) ==
    /\ workerPc[w] = "stopped"
    /\ IF setupQueueWithDLXThrows("worker", WorkerQueue(w), WorkerExchange(w),
                                  WorkerDeadLetterQueue(w), WorkerRoutingKey(w))
       THEN /\ workerPc' = [workerPc EXCEPT ![w] = "exited"]
            /\ UNCHANGED <<qArgs, bindings, channels>>
       ELSE /\ workerPc' = [workerPc EXCEPT ![w] = "setup"]
            /\ setupQueueWithDLX("worker", WorkerQueue(w), WorkerExchange(w),
                                 WorkerDeadLetterQueue(w), WorkerRoutingKey(w))
    /\ UNCHANGED <<dbVars, queues, consumers, handlers, settled, lost, connection,
                   managerVars, reqs, sendCalls, handlerWrites, probeVars>>

\* Mutant: the prefetch window one wider than the concurrency asked for.
prefetchWider(concurrency) == concurrency + 1

\* channel.prefetch(concurrency): the consumer's window of unsettled deliveries.
prefetch(concurrency) == concurrency

\* consumeMessages(queue, callback, options, concurrency)
consumeMessagesThrows(p, q, chanOk) == getOrCreateChannelThrows(p, q, chanOk)

\* startPayrollJobProcessor / startEmailJobProcessor, second await.
WorkerConsume(w) ==
    \E chanOk \in BOOLEAN :
        /\ workerPc[w] = "setup"
        /\ channels' = channelsAfterGet("worker", WorkerQueue(w), chanOk)
        /\ qArgs' = qArgsAfterGet("worker", WorkerQueue(w), chanOk)
        /\ IF consumeMessagesThrows("worker", WorkerQueue(w), chanOk)
           THEN /\ workerPc' = [workerPc EXCEPT ![w] = "exited"]
                /\ UNCHANGED consumers
           ELSE /\ workerPc' = [workerPc EXCEPT ![w] = "consuming"]
                /\ consumers' = [consumers EXCEPT ![WorkerQueue(w)] =
                                      prefetch(WorkerConcurrency(w))]
        /\ UNCHANGED <<dbVars, queues, bindings, handlers, settled, lost, connection,
                       managerVars, reqs, sendCalls, handlerWrites, probeVars>>

\* ------------------------------------------------------- payroll service
\* msgId records the id of the job message the request handed to publishMessage;
\* the email publishers also record the process they ran in, whether it held a
\* connection at the call, and what sendToQueue returned (buffered).
IdleReq == [op |-> "none", pc |-> "idle", payrollId |-> "-", outcome |-> "none",
            published |-> "none", msgId |-> None, proc |-> "-", connected |-> "none",
            buffered |-> "none"]

FreeMsgIds == {m \in MsgIds :
                  /\ handlers[m].pc = "idle"
                  /\ m \notin lost
                  /\ \A q \in QueueNames :
                        \A i \in 1..Len(queues[q]) : queues[q][i].id # m}

\* Request slots are taken in order (they are interchangeable).
NewRequest(r) ==
    /\ reqs[r].op = "none"
    /\ \A r2 \in ReqSlots : r2 < r => reqs[r2].op # "none"

Finish(r, outcome) == reqs' = [reqs EXCEPT ![r].pc = "done", ![r].outcome = outcome]

\* createPayroll up to the end of its transaction: the period check, the
\* overlap check, the DRAFT row and its audit entry.
CreatePayrollTx(r) ==
    \E inputOk \in BOOLEAN :
        /\ NewRequest(r)
        /\ IF ~inputOk \/ \A p \in PayrollIds : payrollStatus[p] # NoRow
           THEN /\ reqs' = [reqs EXCEPT ![r] =
                        [IdleReq EXCEPT !.op = "create", !.pc = "done", !.outcome = "error"]]
                /\ UNCHANGED <<payrollStatus, payrollTotals, auditLog>>
           ELSE LET p == CHOOSE x \in PayrollIds : payrollStatus[x] = NoRow
                IN  /\ payrollStatus' = [payrollStatus EXCEPT ![p] = "DRAFT"]
                    /\ payrollTotals' = [payrollTotals EXCEPT
                           ![p] = [totalGross |-> 0, totalNet |-> 0]]
                    /\ auditLog' = [auditLog EXCEPT ![<<"PAYROLL_GENERATED", p>>] = @ + 1]
                    /\ reqs' = [reqs EXCEPT ![r] =
                           [IdleReq EXCEPT !.op = "create", !.pc = "publish",
                                           !.payrollId = p]]
        /\ UNCHANGED <<employeePayroll, employeeActive, brokerVars, wrapperVars,
                       sendCalls, handlerWrites, probeVars>>

\* createPayroll: publish the calculation job and look at the result.
CreatePayrollPublish(r) ==
    \E chanOk \in BOOLEAN, bufferOk \in BOOLEAN :
        LET q == CreatePayrollPublishQueue
            msg == [id |-> CHOOSE m \in FreeMsgIds : TRUE,
                    body |-> JSONstringify([payrollId |-> reqs[r].payrollId])]
            published == publishMessageResult("api", q, chanOk, bufferOk)
        IN  /\ reqs[r].op = "create" /\ reqs[r].pc = "publish"
            /\ FreeMsgIds # {}
            /\ queues' = queuesAfterPublish("api", q, chanOk, msg)
            /\ channels' = channelsAfterGet("api", q, chanOk)
            /\ qArgs' = qArgsAfterGet("api", q, chanOk)
            /\ reqs' = [reqs EXCEPT
                   ![r].published = IF published THEN "true" ELSE "false",
                   ![r].msgId = Some(msg.id),
                   ![r].pc = IF published THEN "done" ELSE "markError",
                   ![r].outcome = IF published THEN "ok" ELSE "none"]
            /\ UNCHANGED <<dbVars, bindings, consumers, handlers, settled, lost,
                           connection, workerPc, managerVars, sendCalls, handlerWrites,
                           probeVars>>

\* createPayroll, publish failed: payroll.update({status: ERROR})
CreatePayrollMarkError(r) ==
    /\ reqs[r].op = "create" /\ reqs[r].pc = "markError"
    /\ payrollStatus' = [payrollStatus EXCEPT ![reqs[r].payrollId] = "ERROR"]
    /\ reqs' = [reqs EXCEPT ![r].pc = "auditFailure"]
    /\ UNCHANGED <<payrollTotals, employeePayroll, auditLog, employeeActive, brokerVars,
                   wrapperVars, sendCalls, handlerWrites, probeVars>>

\* createPayroll, publish failed: the PAYROLL_QUEUE_FAILURE entry, then the throw.
CreatePayrollAuditFailure(r) ==
    /\ reqs[r].op = "create" /\ reqs[r].pc = "auditFailure"
    /\ auditLog' = [auditLog EXCEPT ![<<"PAYROLL_QUEUE_FAILURE", reqs[r].payrollId>>] = @ + 1]
    /\ Finish(r, "error")
    /\ UNCHANGED <<payrollStatus, payrollTotals, employeePayroll, employeeActive,
                   brokerVars, wrapperVars, sendCalls, handlerWrites, probeVars>>

\* approvePayroll / payPayroll: the status each requires and the status each writes.
RequiredStatus(op) == IF op = "approve" THEN "DRAFT" ELSE "APPROVED"
TargetStatus(op) == IF op = "approve" THEN "APPROVED" ELSE "PAID"
AuditOf(op) == IF op = "approve" THEN "PAYROLL_APPROVED" ELSE "PAYROLL_PAID"

\* approvePayroll / payPayroll: findUnique, then the two status checks.
TransitionRead(r, op, p) ==
    /\ NewRequest(r)
    /\ LET status == payrollStatus[p]
           passes == /\ status # NoRow
                     /\ assertPayrollStatus(status, RequiredStatus(op)) = Returned
                     /\ validatePayrollTransition(status, TargetStatus(op)) = Returned
       IN  reqs' = [reqs EXCEPT ![r] =
               [IdleReq EXCEPT !.op = op, !.payrollId = p,
                               !.pc = IF passes THEN "write" ELSE "done",
                               !.outcome = IF passes THEN "none" ELSE "error"]]
    /\ UNCHANGED <<dbVars, brokerVars, wrapperVars, sendCalls, handlerWrites, probeVars>>

\* approvePayroll / payPayroll: the transaction (status update and audit entry).
TransitionWrite(r) ==
    /\ reqs[r].op \in {"approve", "pay"} /\ reqs[r].pc = "write"
    /\ payrollStatus' = [payrollStatus EXCEPT ![reqs[r].payrollId] = TargetStatus(reqs[r].op)]
    /\ auditLog' = [auditLog EXCEPT ![<<AuditOf(reqs[r].op), reqs[r].payrollId>>] = @ + 1]
    /\ Finish(r, "ok")
    /\ UNCHANGED <<payrollTotals, employeePayroll, employeeActive, brokerVars,
                   wrapperVars, sendCalls, handlerWrites, probeVars>>

approvePayroll(r, p) == TransitionRead(r, "approve", p)
payPayroll(r, p) == TransitionRead(r, "pay", p)

\* ------------------------------------------------- email job: the payloads
\* Fields that may be absent are optional values; strings stand for themselves.
EmailTypes == {"verification", "invite", "welcome"}
ValidAddress == "user@example.com"
ValidUrl == "https://hrpay.example/invite/abc"

\* z.string().email() / z.string().url()
isEmail(s) == s = ValidAddress
isUrl(s) == s = ValidUrl

EmailPayload(type, to, retryCount, token, name, companyName, invitationUrl) ==
    [type |-> type, to |-> to, retryCount |-> retryCount, token |-> token,
     name |-> name, companyName |-> companyName, invitationUrl |-> invitationUrl]

\* JavaScript truthiness of an optional string.
Truthy(o) == IsSome(o) /\ o[1] # ""

\* Mutant: safeParse accepts every payload.
safeParseAlwaysSuccess(payload) == TRUE

\* EmailJobPayloadSchema.safeParse(rawPayload).success
safeParseSuccess(payload) ==
    /\ payload.type \in EmailTypes
    /\ isEmail(payload.to)
    /\ IsSome(payload.retryCount) => payload.retryCount[1] >= 0
    /\ CASE payload.type = "verification" ->
                IsSome(payload.token) /\ payload.token[1] # ""
         [] payload.type = "invite" ->
                /\ IsSome(payload.companyName) /\ payload.companyName[1] # ""
                /\ IsSome(payload.invitationUrl) /\ isUrl(payload.invitationUrl[1])
         [] OTHER -> TRUE

\* (payload.retryCount || 0) + 1
attempt(payload) == (IF IsSome(payload.retryCount) THEN payload.retryCount[1] ELSE 0) + 1

\* The checks of the switch that throw before any send method is called.
throwsBeforeSend(payload) ==
    CASE payload.type = "verification" -> ~Truthy(payload.token) \/ ~Truthy(payload.name)
      [] payload.type = "invite" ->
             ~Truthy(payload.companyName) \/ ~Truthy(payload.invitationUrl)
      [] payload.type = "welcome" -> FALSE
      [] OTHER -> TRUE

\* ------------------------------------------- email job: processEmailJob
\* One step of the handler for message m, from one await to the next.
\* sendOk: the emailService send method resolves (it raises otherwise).
processEmailJob(m, sendOk) ==
    LET payload == JSONparse(handlers[m].body)
        pc == handlers[m].pc
    IN
    /\ pc \in {"validate", "sending"}
    /\ CASE pc = "validate" ->
            IF ~safeParseSuccess(payload) \/ throwsBeforeSend(payload)
            THEN /\ HandlerThrows(m)
                 /\ UNCHANGED sendCalls
            ELSE /\ sendCalls' = [sendCalls EXCEPT ![m] = @ + 1]
                 /\ HandlerGoes(m, "sending")
         [] pc = "sending" ->
            /\ UNCHANGED sendCalls
            /\ IF sendOk THEN HandlerReturns(m, "true")
               ELSE IF attempt(payload) >= MAX_RETRIES
                    THEN HandlerThrows(m)
                    ELSE HandlerThrows(m)
    /\ UNCHANGED <<dbVars, qArgs, bindings, consumers, wrapperVars, reqs,
                   handlerWrites, probeVars>>

\* The broker hands the head of the email queue to the consume callback.
DeliverEmail ==
    LET q == EmailQueueName IN
    /\ consumers[q] > 0
    /\ queues[q] # <<>>
    /\ Cardinality(Unsettled(q)) < consumers[q]
    /\ LET msg == Head(queues[q])
           m == msg.id
           rest == [queues EXCEPT ![q] = Tail(@)]
       IN  IF JSONparseThrows(msg.body)
           THEN /\ handlers' = [handlers EXCEPT ![m] =
                        [IdleHandler EXCEPT !.pc = "done", !.q = q, !.body = msg.body,
                                            !.ackCalls = settleCalls(OnParseError, TRUE).ack,
                                            !.nackCalls = settleCalls(OnParseError, TRUE).nack]]
                /\ SettleWith(m, q, msg.body, OnParseError, rest)
           ELSE /\ handlers' = [handlers EXCEPT ![m] =
                        [IdleHandler EXCEPT !.pc = "validate", !.q = q, !.body = msg.body,
                                            !.invoked = TRUE]]
                /\ queues' = rest
                /\ UNCHANGED <<settled, lost>>
    /\ UNCHANGED <<dbVars, qArgs, bindings, consumers, wrapperVars, reqs,
                   sendCalls, handlerWrites, probeVars>>

\* ------------------------------------------- auth service: email publishers
\* The payloads the auth service publishes: the verification mail of a
\* registration (with the name), the welcome mail, the re-sent verification
\* mail (without a name).
AuthEmailPayloads ==
    {EmailPayload("verification", ValidAddress, None, Some("tok"), Some("Ada Admin"),
                  None, None),
     EmailPayload("welcome", ValidAddress, None, None, None, None, None),
     EmailPayload("verification", ValidAddress, None, Some("tok"), None, None, None)}

\* publishMessage('email_job_queue', emailJobPayload) from process p; the
\* caller logs the result and carries on.
PublishEmail(r, p, payload) ==
    \E chanOk \in BOOLEAN, bufferOk \in BOOLEAN :
        LET q == EmailQueueName
            msg == [id |-> CHOOSE m \in FreeMsgIds : TRUE, body |-> JSONstringify(payload)]
            published == publishMessageResult(p, q, chanOk, bufferOk)
        IN  /\ NewRequest(r)
            /\ FreeMsgIds # {}
            /\ queues' = queuesAfterPublish(p, q, chanOk, msg)
            /\ channels' = channelsAfterGet(p, q, chanOk)
            /\ qArgs' = qArgsAfterGet(p, q, chanOk)
            /\ reqs' = [reqs EXCEPT ![r] =
                   [IdleReq EXCEPT !.op = "email", !.pc = "done", !.outcome = "ok",
                                   !.published = IF published THEN "true" ELSE "false",
                                   !.msgId = Some(msg.id),
                                   !.proc = p,
                                   !.connected = IF connection[p] THEN "true" ELSE "false",
                                   !.buffered =
                                       IF getOrCreateChannelThrows(p, q, chanOk) THEN "none"
                                       ELSE IF bufferOk THEN "true" ELSE "false"]]
            /\ UNCHANGED <<dbVars, bindings, consumers, handlers, settled, lost,
                           connection, workerPc, managerVars, sendCalls, handlerWrites,
                           probeVars>>

\* ------------------------------------ state machine: the two functions applied
ProbeFrame == UNCHANGED <<dbVars, brokerVars, wrapperVars, reqs, sendCalls, handlerWrites>>

ValidateTransition(currentStatus, nextStatus) ==
    /\ vIn' = <<"validatePayrollTransition", currentStatus, nextStatus>>
    /\ vOut' = validatePayrollTransition(currentStatus, nextStatus)
    /\ ProbeFrame

AssertStatus(status, expectedStatus) ==
    /\ vIn' = <<"assertPayrollStatus", status, expectedStatus>>
    /\ vOut' = assertPayrollStatus(status, expectedStatus)
    /\ ProbeFrame

\* Employee records and hours the gross pay rule is probed with: amounts in
\* cents, hours in hundredths; the products include exact cents, ties and both
\* sides of a tie.
GrossPaySalaries == {None, Some(0), Some(123456), Some(300000)}
GrossPayRates == {None, Some(1), Some(3), Some(2000), Some(2050)}
GrossPayHours == {None, Some(0), Some(49), Some(50), Some(51), Some(150), Some(8000)}
GrossPayEmployees ==
    {[id |-> "probe", payType |-> t, salary |-> s, payRate |-> r] :
        t \in {"SALARY", "HOURLY"}, s \in GrossPaySalaries, r \in GrossPayRates}

CalculateGrossPay(employee, hoursWorked) ==
    /\ vIn' = <<"calculateEmployeeGrossPay", employee, hoursWorked>>
    /\ vOut' = <<calculateEmployeeGrossPay(employee, hoursWorked),
                 employeePayrollLine(employee, hoursWorked)>>
    /\ ProbeFrame

\* ------------------------------------------------------------ initial state
JobBody(p) == JSONstringify([payrollId |-> p])
PayrollBodies == {JobBody(p) : p \in PayrollIds} \cup {MalformedBody}

SeqsUpTo(S, n) == UNION {[1..k -> S] : k \in 0..n}
Numbered(bodies) == [i \in 1..Len(bodies) |-> [id |-> i, body |-> bodies[i]]]

InitDb ==
    /\ payrollStatus \in {[p \in PayrollIds |-> IF p = "P1" THEN s ELSE NoRow] :
                             s \in PayrollStatus}
    /\ payrollTotals = [p \in PayrollIds |-> [totalGross |-> 0, totalNet |-> 0]]
    /\ employeePayroll \in
          {[p \in PayrollIds |-> IF p = "P1" THEN rows ELSE {}] :
              rows \in {{}, {[employeeId |-> "bob", grossAmount |-> 0, netAmount |-> 0,
                              regularHoursWorked |-> Some(InitHours)]}}}
    /\ auditLog = [k \in AuditActionType \X PayrollIds |-> 0]
    /\ employeeActive \in SUBSET EmployeeIds

InitIdle ==
    /\ consumers = [q \in QueueNames |-> 0]
    /\ handlers = [m \in MsgIds |-> IdleHandler]
    /\ settled = [m \in MsgIds |-> "none"]
    /\ lost = {}
    /\ connection = [p \in Procs |-> TRUE]
    /\ channels = [p \in Procs |-> {}]
    /\ workerPc = [w \in Workers |-> "stopped"]
    /\ reconnectTimeout = [p \in Procs |-> FALSE]
    /\ reconnectAttempts = [p \in Procs |-> 0]
    /\ isExplicitlyClosing = [p \in Procs |-> FALSE]
    /\ connecting = [p \in Procs |-> 0]
    /\ emitted = [p \in Procs |-> "connected"]
    /\ attemptsMade = [p \in Procs |-> 0]
    /\ closePc = [p \in Procs |-> "idle"]
    /\ registry = [q \in QueueNames |-> NoChannel]
    /\ chans = [ch \in ChanIds |-> UnusedChannel]
    /\ calls = [c \in CallIds |-> IdleCall]
    /\ reqs = [r \in ReqSlots |-> IdleReq]
    /\ sendCalls = [m \in MsgIds |-> 0]
    /\ handlerWrites = [m \in MsgIds |-> 0]
    /\ vIn = <<"none", "DRAFT", "DRAFT">>
    /\ vOut = <<>>

\* The payroll topology as an earlier run of the worker left it, with the
\* messages then waiting in the primary queue.
Init ==
    /\ InitDb
    /\ InitIdle
    /\ qArgs = [q \in QueueNames |->
                   IF q = PAYROLL_JOB_QUEUE
                   THEN WithDeadLetter(DEAD_LETTER_EXCHANGE, PAYROLL_JOB_QUEUE)
                   ELSE IF q = DEAD_LETTER_QUEUE THEN PlainDurable ELSE Undeclared]
    /\ bindings = {<<DEAD_LETTER_EXCHANGE, PAYROLL_JOB_QUEUE, DEAD_LETTER_QUEUE>>}
    /\ \E bodies \in SeqsUpTo(PayrollBodies, MaxInitMsgs) :
          queues = [q \in QueueNames |->
                       IF q = PAYROLL_JOB_QUEUE THEN Numbered(bodies) ELSE <<>>]

Next ==
    \/ WorkerSetup("payroll")
    \/ WorkerConsume("payroll")
    \/ DeliverPayroll
    \/ \E m \in MsgIds : processGeneratePayrollJob(m, FALSE)
    \/ \E r \in ReqIds : CreatePayrollTx(r)
    \/ \E r \in ReqIds : CreatePayrollPublish(r)
    \/ \E r \in ReqIds : CreatePayrollMarkError(r)
    \/ \E r \in ReqIds : CreatePayrollAuditFailure(r)
    \/ \E r \in ReqIds, p \in PayrollIds : approvePayroll(r, p)
    \/ \E r \in ReqIds, p \in PayrollIds : payPayroll(r, p)
    \/ \E r \in ReqIds : TransitionWrite(r)

Spec == Init /\ [][Next]_vars

\* The broker delivers while the consumer is connected, the event loop runs
\* every continuation, and every request that was started runs to its end.
FairSpec ==
    /\ Spec
    /\ WF_vars(WorkerSetup("payroll"))
    /\ WF_vars(WorkerConsume("payroll"))
    /\ WF_vars(DeliverPayroll)
    /\ WF_vars(\E m \in MsgIds : processGeneratePayrollJob(m, FALSE))
    /\ WF_vars(\E r \in ReqIds : CreatePayrollPublish(r))
    /\ WF_vars(\E r \in ReqIds : CreatePayrollMarkError(r))
    /\ WF_vars(\E r \in ReqIds : CreatePayrollAuditFailure(r))
    /\ WF_vars(\E r \in ReqIds : TransitionWrite(r))

\* --------------------------------------------------------- the email pipeline
\* Bodies that may wait in the email queue, whoever published them.
EmailBodies ==
    {JSONstringify(x) : x \in
        AuthEmailPayloads \cup
        {EmailPayload("invite", ValidAddress, None, None, None, Some("Acme"), Some(ValidUrl)),
         EmailPayload("verification", ValidAddress, None, None, Some("Ada Admin"), None, None),
         EmailPayload("newsletter", ValidAddress, None, None, None, None, None),
         EmailPayload("welcome", "nobody", None, None, Some("Ada Admin"), None, None),
         EmailPayload("welcome", ValidAddress, Some(MAX_RETRIES - 1), None, None,
                      Some("Acme"), None),
         EmailPayload("verification", ValidAddress, Some(-1), Some("tok"), Some("Ada Admin"),
                      None, None)}}
    \cup {MalformedBody}

\* The email topology as an earlier run of the worker left it, with the
\* messages then waiting in the primary queue.
InitEmail ==
    /\ InitDb
    /\ payrollStatus["P1"] = "DRAFT" /\ employeePayroll["P1"] = {}
    /\ employeeActive = EmployeeIds
    /\ InitIdle
    /\ qArgs = [q \in QueueNames |->
                   IF q = EmailQueueName
                   THEN WithDeadLetter(EmailDeadLetterExchange, EmailQueueName)
                   ELSE IF q = EmailDeadLetterQueueName THEN PlainDurable ELSE Undeclared]
    /\ bindings = {<<EmailDeadLetterExchange, EmailQueueName, EmailDeadLetterQueueName>>}
    /\ \E bodies \in SeqsUpTo(EmailBodies, MaxInitMsgs) :
          queues = [q \in QueueNames |->
                       IF q = EmailQueueName THEN Numbered(bodies) ELSE <<>>]

NextEmail ==
    \/ WorkerSetup("email")
    \/ WorkerConsume("email")
    \/ DeliverEmail
    \/ \E m \in MsgIds, sendOk \in BOOLEAN : processEmailJob(m, sendOk)

SpecEmail == InitEmail /\ [][NextEmail]_vars

\* The email worker while the channel it consumes on may close under it.
NextSettle ==
    \/ WorkerSetup("email")
    \/ WorkerConsume("email")
    \/ DeliverEmail
    \/ \E m \in MsgIds, sendOk \in BOOLEAN : processEmailJob(m, sendOk)
    \/ ChannelCloses(EmailQueueName)

SpecSettle == InitEmail /\ [][NextSettle]_vars

\* The channel registry of the api process under concurrent publishers.
InitRegistry ==
    /\ InitDb
    /\ payrollStatus["P1"] = "DRAFT" /\ employeePayroll["P1"] = {}
    /\ employeeActive = EmployeeIds
    /\ InitIdle
    /\ qArgs = [q \in QueueNames |-> Undeclared]
    /\ bindings = {}
    /\ queues = [q \in QueueNames |-> <<>>]

NextRegistry ==
    \/ \E c \in CallIds, q \in RegistryQueues : getOrCreateChannelBegins(c, q)
    \/ \E c \in CallIds, ok \in BOOLEAN : createChannelResolves(c, ok)
    \/ \E c \in CallIds, ok \in BOOLEAN : assertQueueResolves(c, ok)
    \/ \E ch \in ChanIds : ChannelEmitsClose(ch)

SpecRegistry == InitRegistry /\ [][NextRegistry]_vars

\* ------------------------------------------- declaring the queues from scratch
\* A broker on which nothing is declared: the workers and the publishers of
\* email jobs (in the API process, or in the process that runs the workers)
\* start in any order.
InitTopology ==
    /\ InitDb
    /\ payrollStatus["P1"] = "DRAFT" /\ employeePayroll["P1"] = {}
    /\ employeeActive = EmployeeIds
    /\ InitIdle
    /\ qArgs = [q \in QueueNames |-> Undeclared]
    /\ bindings = {}
    /\ queues = [q \in QueueNames |-> <<>>]

NextTopology ==
    \/ \E w \in Workers : WorkerSetup(w)
    \/ \E w \in Workers : WorkerConsume(w)
    \/ \E r \in ReqIds, p \in Procs, payload \in AuthEmailPayloads : PublishEmail(r, p, payload)
    \/ DeliverEmail
    \/ \E m \in MsgIds, sendOk \in BOOLEAN : processEmailJob(m, sendOk)

SpecTopology == InitTopology /\ [][NextTopology]_vars

\* ------------------------------------------------- the connection manager
\* The wrapper of the worker process as its constructor leaves it, on a broker
\* where nothing is declared.
InitManager ==
    /\ InitDb
    /\ payrollStatus["P1"] = "DRAFT" /\ employeePayroll["P1"] = {}
    /\ employeeActive = EmployeeIds
    /\ consumers = [q \in QueueNames |-> 0]
    /\ handlers = [m \in MsgIds |-> IdleHandler]
    /\ settled = [m \in MsgIds |-> "none"]
    /\ lost = {}
    /\ connection = [p \in Procs |-> FALSE]
    /\ channels = [p \in Procs |-> {}]
    /\ workerPc = [w \in Workers |-> "stopped"]
    /\ reconnectTimeout = [p \in Procs |-> FALSE]
    /\ reconnectAttempts = [p \in Procs |-> 0]
    /\ isExplicitlyClosing = [p \in Procs |-> FALSE]
    /\ connecting = [p \in Procs |-> 0]
    /\ emitted = [p \in Procs |-> "none"]
    /\ attemptsMade = [p \in Procs |-> 0]
    /\ closePc = [p \in Procs |-> "idle"]
    /\ registry = [q \in QueueNames |-> NoChannel]
    /\ chans = [ch \in ChanIds |-> UnusedChannel]
    /\ calls = [c \in CallIds |-> IdleCall]
    /\ reqs = [r \in ReqSlots |-> IdleReq]
    /\ sendCalls = [m \in MsgIds |-> 0]
    /\ handlerWrites = [m \in MsgIds |-> 0]
    /\ vIn = <<"none", "DRAFT", "DRAFT">>
    /\ vOut = <<>>
    /\ qArgs = [q \in QueueNames |-> Undeclared]
    /\ bindings = {}
    /\ queues = [q \in QueueNames |-> <<>>]

NextManager ==
    \/ initialize("worker")
    \/ ReconnectTimerFires("worker")
    \/ \E ok \in BOOLEAN : ConnectResolves("worker", ok)
    \/ handleConnectionClose("worker")
    \/ closeBegins("worker")
    \/ closeEnds("worker")
    \/ \E r \in ReqIds, payload \in AuthEmailPayloads : PublishEmail(r, "worker", payload)
    \/ WorkerSetup("email")
    \/ WorkerConsume("email")

SpecManager == InitManager /\ [][NextManager]_vars

\* ------------------------------- approve / pay against the payroll worker
\* Concurrent approvePayroll / payPayroll calls interleaved with one another
\* and with the payroll worker, on payrolls that already exist; the backlog
\* holds jobs of the first payroll.
InitRace ==
    /\ InitDb
    /\ InitIdle
    /\ qArgs = [q \in QueueNames |->
                   IF q = PAYROLL_JOB_QUEUE
                   THEN WithDeadLetter(DEAD_LETTER_EXCHANGE, PAYROLL_JOB_QUEUE)
                   ELSE IF q = DEAD_LETTER_QUEUE THEN PlainDurable ELSE Undeclared]
    /\ bindings = {<<DEAD_LETTER_EXCHANGE, PAYROLL_JOB_QUEUE, DEAD_LETTER_QUEUE>>}
    /\ \E bodies \in SeqsUpTo({JobBody("P1")}, MaxInitMsgs) :
          queues = [q \in QueueNames |->
                       IF q = PAYROLL_JOB_QUEUE THEN Numbered(bodies) ELSE <<>>]

NextRace ==
    \/ WorkerSetup("payroll")
    \/ WorkerConsume("payroll")
    \/ DeliverPayroll
    \/ \E m \in MsgIds : processGeneratePayrollJob(m, FALSE)
    \/ \E r \in ReqSlots, p \in PayrollIds : approvePayroll(r, p)
    \/ \E r \in ReqSlots, p \in PayrollIds : payPayroll(r, p)
    \/ \E r \in ReqSlots : TransitionWrite(r)

SpecRace == InitRace /\ [][NextRace]_vars

\* ------------------------------- the payroll worker on a failing database
\* The payroll worker when any database call of the handler may raise.
NextFaulty ==
    \/ WorkerSetup("payroll")
    \/ WorkerConsume("payroll")
    \/ DeliverPayroll
    \/ \E m \in MsgIds, dbFails \in BOOLEAN : processGeneratePayrollJob(m, dbFails)

SpecFaulty == InitRace /\ [][NextFaulty]_vars

\* ------------------------------------------ the payroll worker on a backlog
\* The payroll worker started on a provisioned queue that already holds more
\* jobs than its concurrency.
InitBacklog ==
    /\ InitDb
    /\ InitIdle
    /\ qArgs = [q \in QueueNames |->
                   IF q = PAYROLL_JOB_QUEUE
                   THEN WithDeadLetter(DEAD_LETTER_EXCHANGE, PAYROLL_JOB_QUEUE)
                   ELSE IF q = DEAD_LETTER_QUEUE THEN PlainDurable ELSE Undeclared]
    /\ bindings = {<<DEAD_LETTER_EXCHANGE, PAYROLL_JOB_QUEUE, DEAD_LETTER_QUEUE>>}
    /\ \E bodies \in SeqsUpTo(PayrollBodies, MaxBacklog) :
          queues = [q \in QueueNames |->
                       IF q = PAYROLL_JOB_QUEUE THEN Numbered(bodies) ELSE <<>>]

NextBacklog ==
    \/ WorkerSetup("payroll")
    \/ WorkerConsume("payroll")
    \/ DeliverPayroll
    \/ \E m \in MsgIds : processGeneratePayrollJob(m, FALSE)

SpecBacklog == InitBacklog /\ [][NextBacklog]_vars

\* --------------------------------------- the email worker across reconnects
\* The email worker on a connected wrapper whose connection may drop and be
\* re-established by the reconnect loop; the backlog holds emails the auth
\* service publishes.
InitReconnect ==
    /\ InitDb
    /\ payrollStatus["P1"] = "DRAFT" /\ employeePayroll["P1"] = {}
    /\ employeeActive = EmployeeIds
    /\ InitIdle
    /\ qArgs = [q \in QueueNames |->
                   IF q = EmailQueueName
                   THEN WithDeadLetter(EmailDeadLetterExchange, EmailQueueName)
                   ELSE IF q = EmailDeadLetterQueueName THEN PlainDurable ELSE Undeclared]
    /\ bindings = {<<EmailDeadLetterExchange, EmailQueueName, EmailDeadLetterQueueName>>}
    /\ \E bodies \in SeqsUpTo({JSONstringify(x) : x \in AuthEmailPayloads}, MaxInitMsgs) :
          queues = [q \in QueueNames |->
                       IF q = EmailQueueName THEN Numbered(bodies) ELSE <<>>]

NextReconnect ==
    \/ WorkerSetup("email")
    \/ WorkerConsume("email")
    \/ DeliverEmail
    \/ \E m \in MsgIds, sendOk \in BOOLEAN : processEmailJob(m, sendOk)
    \/ handleConnectionClose("worker")
    \/ ReconnectTimerFires("worker")
    \/ \E ok \in BOOLEAN : ConnectResolves("worker", ok)

SpecReconnect == InitReconnect /\ [][NextReconnect]_vars

\* The worker's awaits resume, the broker delivers to a consumer with prefetch
\* room, an armed timer fires and amqp.connect settles.
FairReconnect ==
    /\ SpecReconnect
    /\ WF_vars(WorkerSetup("email"))
    /\ WF_vars(WorkerConsume("email"))
    /\ WF_vars(DeliverEmail)
    /\ WF_vars(\E m \in MsgIds, sendOk \in BOOLEAN : processEmailJob(m, sendOk))
    /\ WF_vars(ReconnectTimerFires("worker"))
    /\ WF_vars(\E ok \in BOOLEAN : ConnectResolves("worker", ok))

\* ------------------------------------------------- the state machine alone
InitValidate ==
    /\ InitDb
    /\ InitIdle
    /\ qArgs = [q \in QueueNames |-> Undeclared]
    /\ bindings = {}
    /\ queues = [q \in QueueNames |-> <<>>]

NextValidate ==
    \/ \E currentStatus \in PayrollStatus, nextStatus \in PayrollStatus :
          ValidateTransition(currentStatus, nextStatus)
    \/ \E status \in PayrollStatus, expectedStatus \in PayrollStatus :
          AssertStatus(status, expectedStatus)

SpecValidate == InitValidate /\ [][NextValidate]_vars

\* ------------------------------------------------- the gross pay rule alone
InitGrossPay ==
    /\ InitValidate
    /\ payrollStatus["P1"] = "DRAFT" /\ employeePayroll["P1"] = {}
    /\ employeeActive = EmployeeIds

NextGrossPay ==
    \E employee \in GrossPayEmployees, hoursWorked \in GrossPayHours :
        CalculateGrossPay(employee, hoursWorked)

SpecGrossPay == InitGrossPay /\ [][NextGrossPay]_vars

\* ================================================================ claims
TerminalStatuses == {"PAID", "ERROR", "CANCELLED"}
ResolvedStatuses == {"APPROVED", "PAID", "ERROR", "CANCELLED"}
PayrollOf(m) == JSONparse(handlers[m].body).payrollId
Handled(m) == handlers[m].pc = "done" /\ handlers[m].invoked
Waiting(m) == \E q \in QueueNames : \E i \in 1..Len(queues[q]) : queues[q][i].id = m
WaitingIn(m, q) == \E i \in 1..Len(queues[q]) : queues[q][i].id = m

\* C1: no step of the job pipeline (a delivery or a step of the generation
\* handler) changes the status of a payroll that is PAID, ERROR or CANCELLED.
C1_TerminalStatusStable ==
    [][handlers' # handlers =>
          \A p \in PayrollIds :
              payrollStatus[p] \in TerminalStatuses => payrollStatus'[p] = payrollStatus[p]]_vars

\* A job for a CANCELLED payroll went through both status checks of the handler.
C1_Witness ==
    \E m \in MsgIds :
        /\ Handled(m)
        /\ handlers[m].atDelivery = "CANCELLED"
        /\ handlers[m].result = "false"
        /\ payrollStatus[PayrollOf(m)] = "CANCELLED"

\* C3: a job delivered for a payroll that is APPROVED, PAID, ERROR or CANCELLED
\* makes the handler write nothing (no step of it changes the payroll row, the
\* EmployeePayroll rows or the audit log) and the message is acked.
C3_NoWrite ==
    \A m \in MsgIds :
        (handlers'[m] # handlers[m] /\ handlers'[m].atDelivery \in ResolvedStatuses)
            => UNCHANGED <<payrollStatus, payrollTotals, employeePayroll, auditLog>>

C3_Acked ==
    \A m \in MsgIds :
        (handlers[m].pc = "done" /\ handlers[m].atDelivery \in ResolvedStatuses)
            => (settled[m] = "ack" /\ handlerWrites[m] = 0)

C4_GenerationFromDraft ==
    \A m \in MsgIds :
        ( /\ Handled(m)
          /\ handlers[m].atDelivery = "DRAFT"
          /\ employeeActive # {}
          /\ \A r \in ReqIds : reqs[r].op = "none" )
        => LET p == PayrollOf(m)
               rows == employeePayroll[p]
           IN  /\ settled[m] = "ack"
               /\ {r.employeeId : r \in rows} = employeeActive
               /\ Cardinality(rows) = Cardinality(employeeActive)
               /\ \A r \in rows :
                     /\ r.netAmount = r.grossAmount
                     /\ Employee[r.employeeId].payType = "SALARY"
                            => r.grossAmount = Employee[r.employeeId].salary[1]
               /\ payrollTotals[p] = [totalGross |-> SumGross(rows), totalNet |-> SumNet(rows)]
               /\ payrollStatus[p] = "DRAFT"
               /\ auditLog[<<"PAYROLL_GENERATED", p>>] >= 1
               /\ handlerWrites[m] >= 1

\* C7: a job whose payrollId matches no payroll row is nacked without requeue
\* (not acked) and the handler writes nothing.
C7_NotFoundIsNacked ==
    \A m \in MsgIds :
        (Handled(m) /\ payrollStatus[PayrollOf(m)] = NoRow)
            => (settled[m] = "nack" /\ handlerWrites[m] = 0)

\* C9: every job createPayroll publishes successfully is eventually delivered
\* to processGeneratePayrollJob.
C9_PublishedJobIsDelivered ==
    \A r \in ReqIds :
        (reqs[r].published = "true")
            ~> (IsSome(reqs[r].msgId) /\ handlers[reqs[r].msgId[1]].invoked)

\* C10: when the publish of the calculation job reports failure, createPayroll
\* sets the status to ERROR, writes a PAYROLL_QUEUE_FAILURE entry and ends with
\* an error; a finished createPayroll never leaves its payroll in DRAFT with no
\* job enqueued.
C10_FailureHandled ==
    \A r \in ReqIds :
        (reqs[r].op = "create" /\ reqs[r].pc = "done" /\ reqs[r].payrollId # "-")
        => LET p == reqs[r].payrollId
               m == reqs[r].msgId[1]
               enqueued == IsSome(reqs[r].msgId)
                           /\ (Waiting(m) \/ handlers[m].pc # "idle" \/ m \in lost)
           IN  /\ reqs[r].published = "false"
                     => (reqs[r].outcome = "error"
                         /\ auditLog[<<"PAYROLL_QUEUE_FAILURE", p>>] >= 1)
               /\ payrollStatus[p] = "DRAFT" => enqueued

C10_MarksError ==
    \A r \in ReqIds :
        (reqs[r].pc = "markError" /\ reqs'[r].pc # "markError")
            => payrollStatus'[reqs[r].payrollId] = "ERROR"

C10_PublishFailureAfterCreate == []C10_FailureHandled /\ [][C10_MarksError]_vars

C10_Witness ==
    \E r \in ReqIds :
        /\ reqs[r].op = "create" /\ reqs[r].pc = "done"
        /\ reqs[r].published = "false"
        /\ payrollStatus[reqs[r].payrollId] = "ERROR"

\* The adjacency table as the specification writes it.
C2_Table == {<<"DRAFT", "APPROVED">>, <<"APPROVED", "PAID">>}

\* C2: validatePayrollTransition(current, requested) returns without error
\* exactly when current = requested or <<current, requested>> is an edge of the
\* adjacency table; for every other pair it raises an error naming both states.
C2_Outcome ==
    (vIn[1] = "validatePayrollTransition")
        => LET current == vIn[2]
               requested == vIn[3]
           IN  IF current = requested \/ <<current, requested>> \in C2_Table
               THEN vOut = Returned
               ELSE /\ vOut # Returned
                    /\ vOut[1] = "ApiError"
                    /\ vOut[3] = current /\ vOut[4] = requested

\* C2, second part: applying the function changes nothing but its own result.
C2_NoSideEffects ==
    (vIn'[1] = "validatePayrollTransition")
        => UNCHANGED <<dbVars, brokerVars, wrapperVars, reqs, sendCalls, handlerWrites>>

C2_ValidateTransitionTable == []C2_Outcome /\ [][C2_NoSideEffects]_vars

\* The function refused PAID -> DRAFT, naming both.
C2_Witness ==
    /\ vIn = <<"validatePayrollTransition", "PAID", "DRAFT">>
    /\ vOut = ApiError("Invalid payroll transition", "PAID", "DRAFT")

\* C5: a delivered message whose body parses is acked when its handler
\* completed without raising and nacked without requeue when it raised; no
\* message is ever requeued.
C5_Settled ==
    \A m \in MsgIds :
        /\ settled[m] # "requeue"
        /\ (handlers[m].pc = "done" /\ ~JSONparseThrows(handlers[m].body))
              => /\ handlers[m].result \in {"true", "false"} => settled[m] = "ack"
                 /\ handlers[m].result = "threw" => settled[m] = "nack"
                 /\ handlers[m].result \in {"true", "false", "threw"}

\* C5, as a step: a message that left its queue by delivery never re-enters it.
C5_NoRequeue ==
    \A m \in MsgIds :
        (handlers[m].pc # "idle" /\ ~WaitingIn(m, handlers[m].q))
            => ~WaitingIn(m, handlers[m].q)'

C6_InvalidPayload(payload) ==
    \/ payload.type \notin {"verification", "invite", "welcome"}
    \/ payload.to # ValidAddress
    \/ (payload.retryCount # None /\ payload.retryCount[1] < 0)
    \/ (payload.type = "verification" /\ payload.token \in {None, Some("")})
    \/ (payload.type = "invite" /\ (payload.companyName \in {None, Some("")}
                                     \/ payload.invitationUrl # Some(ValidUrl)))

\* C6: an email message that is malformed JSON, or whose payload has an unknown
\* type or fails the schema, is nacked without requeue once handled and no send
\* method is ever invoked for it; for malformed JSON the handler is not invoked.
C6_PayloadErrorsArePermanent ==
    \A m \in MsgIds :
        (handlers[m].pc # "idle" /\ handlers[m].q = EmailQueueName)
        => /\ JSONparseThrows(handlers[m].body)
                 => (settled[m] = "nack" /\ ~handlers[m].invoked /\ sendCalls[m] = 0)
           /\ (~JSONparseThrows(handlers[m].body)
               /\ C6_InvalidPayload(JSONparse(handlers[m].body)))
                 => /\ sendCalls[m] = 0
                    /\ handlers[m].pc # "sending"
                    /\ handlers[m].pc = "done" => settled[m] = "nack"

\* A malformed message was rejected without the handler, and a message with a
\* bad address was rejected by the handler without a send.
C6_Witness ==
    \E m1 \in MsgIds, m2 \in MsgIds :
        /\ handlers[m1].pc = "done" /\ handlers[m1].q = EmailQueueName
        /\ JSONparseThrows(handlers[m1].body)
        /\ settled[m1] = "nack" /\ ~handlers[m1].invoked
        /\ handlers[m2].pc = "done" /\ handlers[m2].q = EmailQueueName
        /\ ~JSONparseThrows(handlers[m2].body)
        /\ JSONparse(handlers[m2].body).to # ValidAddress
        /\ handlers[m2].invoked /\ settled[m2] = "nack" /\ sendCalls[m2] = 0

\* C8, first part: every message nacked without requeue on a worker's primary
\* queue is in that queue's dead-letter queue.
C8_NackedIsDeadLettered ==
    \A m \in MsgIds, w \in Workers :
        (settled[m] = "nack" /\ handlers[m].q = WorkerQueue(w))
            => WaitingIn(m, WorkerDeadLetterQueue(w))

\* C8, second part: a worker's primary queue, whoever declared it, carries
\* dead-letter arguments, and the dead-letter queue is bound to that exchange
\* under that routing key.
C8_PrimaryDeclaredWithDeadLetter ==
    \A w \in Workers :
        qArgs[WorkerQueue(w)].declared
            => /\ qArgs[WorkerQueue(w)].dlx = WorkerExchange(w)
               /\ <<qArgs[WorkerQueue(w)].dlx, qArgs[WorkerQueue(w)].rk,
                    WorkerDeadLetterQueue(w)>> \in bindings

\* C8: no nacked message is lost, the primary queues being declared with
\* dead-letter arguments that match the binding of the dead-letter queue.
C8_NoFailedMessageLost == C8_NackedIsDeadLettered /\ C8_PrimaryDeclaredWithDeadLetter

\* C11: publishMessage returns true only if every sendToQueue call returned
\* true; it returns false when the local buffer refused the message or when no
\* channel could be obtained; the caller always gets a boolean.
C11_PublishResultIsAdmission ==
    \A r \in ReqIds :
        (reqs[r].op = "email" /\ reqs[r].pc = "done")
            => /\ reqs[r].published \in {"true", "false"}
               /\ reqs[r].published = "true" => reqs[r].buffered = "true"
               /\ reqs[r].buffered \in {"false", "none"} => reqs[r].published = "false"

\* C12: once close() has been called and until initialize() is called again,
\* no reconnect timer is pending, no step arms one (a 'close' event included)
\* and no connect attempt is started.
C12_NoTimerWhileClosed ==
    \A p \in Procs : isExplicitlyClosing[p] => ~reconnectTimeout[p]

C12_NoAttemptWhileClosed ==
    \A p \in Procs :
        (isExplicitlyClosing[p] /\ isExplicitlyClosing'[p])
            => /\ ~reconnectTimeout'[p]
               /\ connecting'[p] <= connecting[p]
               /\ attemptsMade'[p] <= attemptsMade[p]
               /\ reconnectAttempts'[p] <= reconnectAttempts[p]

C12_CloseSuppressesReconnect == []C12_NoTimerWhileClosed /\ [][C12_NoAttemptWhileClosed]_vars

\* close() was called while a reconnect was scheduled after failed attempts,
\* and has finished: the wrapper is closed with no timer and no connection.
C12_Witness ==
    /\ isExplicitlyClosing["worker"]
    /\ emitted["worker"] = "closed"
    /\ reconnectAttempts["worker"] >= 2
    /\ ~reconnectTimeout["worker"]
    /\ ~connection["worker"]

\* C13: at most maxReconnectAttempts reconnect attempts are started without a
\* successful connection in between; a successful connection resets the
\* counter; once the last attempt has failed the wrapper has emitted 'failed'
\* and no timer is pending.
C13_AttemptsBounded ==
    \A p \in Procs :
        /\ attemptsMade[p] <= maxReconnectAttempts
        /\ reconnectAttempts[p] <= maxReconnectAttempts
        /\ ( /\ attemptsMade[p] = maxReconnectAttempts
             /\ connecting[p] = 0 /\ ~connection[p] /\ ~isExplicitlyClosing[p] )
              => (emitted[p] = "failed" /\ ~reconnectTimeout[p])

C13_CounterRestarts ==
    \A p \in Procs :
        (~connection[p] /\ connection'[p])
            => (reconnectAttempts'[p] = 0 /\ attemptsMade'[p] = 0)

C13_BoundedReconnect == []C13_AttemptsBounded /\ [][C13_CounterRestarts]_vars

\* Ten attempts in a row failed: the wrapper gave up.
C13_Witness ==
    /\ attemptsMade["worker"] = maxReconnectAttempts
    /\ emitted["worker"] = "failed"
    /\ ~reconnectTimeout["worker"] /\ connecting["worker"] = 0
    /\ ~connection["worker"]

\* C15: a publishMessage call made while the wrapper holds no connection
\* returns false, and a consumeMessages call made then raises (the worker that
\* called it exits); both complete in the step of the call.
C15_PublishReturnsFalse ==
    \A r \in ReqIds :
        (reqs[r].op = "email" /\ reqs[r].connected = "false")
            => (reqs[r].pc = "done" /\ reqs[r].published = "false")

C15_ConsumeRaises ==
    \A w \in Workers :
        (workerPc[w] = "setup" /\ workerPc'[w] # "setup" /\ ~connection["worker"])
            => workerPc'[w] = "exited"

C15_DisconnectedWindow == []C15_PublishReturnsFalse /\ [][C15_ConsumeRaises]_vars

\* A publish was refused after the wrapper had given up reconnecting, and the
\* email worker, set up while connected, failed to consume.
C15_Witness ==
    /\ \E r \in ReqIds : reqs[r].op = "email" /\ reqs[r].connected = "false"
                         /\ reqs[r].published = "false"
    /\ emitted["worker"] = "failed"
    /\ workerPc["email"] = "exited"
    /\ EmailQueueName \in {q \in QueueNames : qArgs[q].declared}

\* C14: a message waiting in the queue of a worker that registered its
\* consumer, while the wrapper holds a connection (the first one or one
\* re-established after a drop), is eventually delivered, unless the
\* connection drops again first.
C14_ConsumerReceivesAfterReconnect ==
    \A m \in MsgIds :
        (workerPc["email"] = "consuming" /\ connection["worker"]
            /\ WaitingIn(m, EmailQueueName))
          ~> (~WaitingIn(m, EmailQueueName) \/ ~connection["worker"])

\* C16: the deliveries of a consumed queue that are neither acked nor nacked
\* (the handler invocations running for it) never outnumber the concurrency
\* its worker passed to consumeMessages.
C16_PrefetchBoundsConcurrency ==
    \A w \in Workers :
        Cardinality(Unsettled(WorkerQueue(w))) <= WorkerConcurrency(w)

\* The window is full while another job waits in the queue.
C16_Witness ==
    /\ Cardinality(Unsettled(PAYROLL_JOB_QUEUE)) = PayrollWorkerConcurrency
    /\ queues[PAYROLL_JOB_QUEUE] # <<>>

\* C17: once a run of the generation handler on a DRAFT payroll has finished,
\* no later step of a run on that payroll changes its lines or its totals; and
\* the lines and totals one pass of the generation loop builds from a DRAFT
\* payroll are the ones a second pass builds from the first pass's lines (the
\* hourly employee's hours being read back from the line written).
C17_LaterRunsKeepOutput ==
    \A p \in PayrollIds :
        (\E m \in MsgIds : /\ Handled(m)
                           /\ handlers[m].atDelivery = "DRAFT"
                           /\ PayrollOf(m) = p)
            => /\ employeePayroll'[p] = employeePayroll[p]
               /\ payrollTotals'[p] = payrollTotals[p]

C17_SecondPassSameOutput ==
    \A p \in PayrollIds :
        (payrollStatus[p] = "DRAFT" /\ employeeActive # {})
            => LET first == generatedLines(employeePayroll[p], employeeActive)
                   second == generatedLines(first, employeeActive)
               IN  /\ second = first
                   /\ generatedTotals(second) = generatedTotals(first)

C17_IdempotentOutput == []C17_SecondPassSameOutput /\ [][C17_LaterRunsKeepOutput]_vars

\* Two jobs for the same DRAFT payroll were handled, the hourly employee being
\* active with hours on file.
C17_Witness ==
    \E m1, m2 \in MsgIds :
        /\ m1 # m2
        /\ Handled(m1) /\ Handled(m2)
        /\ handlers[m1].atDelivery = "DRAFT" /\ handlers[m2].atDelivery = "DRAFT"
        /\ PayrollOf(m1) = PayrollOf(m2)
        /\ "bob" \in employeeActive
        /\ IsSome(hoursOnFile(PayrollOf(m1), "bob"))

C19_GrossPayRule ==
    (vOut # <<>> /\ vIn[1] = "calculateEmployeeGrossPay")
        => LET employee == vIn[2]
               hoursWorked == vIn[3]
               grossPay == vOut[1].grossPay
               line == vOut[2]
           IN  /\ (employee.payType = "SALARY" /\ IsSome(employee.salary))
                     => grossPay = employee.salary[1]
               /\ ( /\ employee.payType = "HOURLY" /\ IsSome(employee.payRate)
                    /\ IsSome(hoursWorked) )
                     => LET x == hoursWorked[1] * employee.payRate[1]
                        IN  /\ 100 * grossPay - x <= 50
                            /\ x - 100 * grossPay < 50
               /\ line.netAmount = line.grossAmount
               /\ (employee.payType = "HOURLY" \/ IsSome(employee.salary))
                     => line.grossAmount = grossPay

\* The rule was applied to an hourly employee whose rate x hours falls on a
\* half cent, and rounded it up.
C19_Witness ==
    /\ vOut # <<>> /\ vIn[1] = "calculateEmployeeGrossPay"
    /\ vIn[2].payType = "HOURLY" /\ vIn[2].payRate = Some(3) /\ vIn[3] = Some(50)
    /\ vOut[1].grossPay = 2
    /\ vOut[2].netAmount = 2

\* C20: a delivery whose send raised is nacked and is not in the email queue
\* again, whatever the payload's retryCount; no delivery calls a send method
\* more than once; and no step of the email worker adds a message to the
\* email queue.
C20_SendFailureNacked ==
    \A m \in MsgIds :
        /\ sendCalls[m] <= 1
        /\ (handlers[m].pc = "done" /\ handlers[m].result = "threw" /\ sendCalls[m] = 1)
              => /\ settled[m] = "nack"
                 /\ ~WaitingIn(m, EmailQueueName)

C20_NoRepublish ==
    /\ Len(queues'[EmailQueueName]) <= Len(queues[EmailQueueName])
    /\ \A m \in MsgIds : WaitingIn(m, EmailQueueName)' => WaitingIn(m, EmailQueueName)

C20_SendFailurePolicy == []C20_SendFailureNacked /\ [][C20_NoRepublish]_vars

\* A send raised on a first attempt and another on the last attempt; both
\* deliveries were nacked into the dead-letter queue.
C20_Witness ==
    \E m1 \in MsgIds, m2 \in MsgIds :
        /\ handlers[m1].pc = "done" /\ handlers[m1].result = "threw" /\ sendCalls[m1] = 1
        /\ attempt(JSONparse(handlers[m1].body)) < MAX_RETRIES
        /\ handlers[m2].pc = "done" /\ handlers[m2].result = "threw" /\ sendCalls[m2] = 1
        /\ attempt(JSONparse(handlers[m2].body)) >= MAX_RETRIES
        /\ settled[m1] = "nack" /\ settled[m2] = "nack"
        /\ WaitingIn(m1, EmailDeadLetterQueueName) /\ WaitingIn(m2, EmailDeadLetterQueueName)

\* C21: a verification job that passes the schema and carries no name has,
\* once handled, caused one call of sendVerificationEmail, and is acked when
\* that send resolved.
C21_VerificationWithoutName ==
    \A m \in MsgIds :
        ( /\ handlers[m].pc = "done" /\ handlers[m].q = EmailQueueName
          /\ ~JSONparseThrows(handlers[m].body)
          /\ JSONparse(handlers[m].body).type = "verification"
          /\ safeParseSuccess(JSONparse(handlers[m].body))
          /\ JSONparse(handlers[m].body).name = None )
            => /\ sendCalls[m] = 1
               /\ handlers[m].result = "true" => settled[m] = "ack"

\* C22: no step (a step of the generation handler interleaved with
\* approvePayroll / payPayroll included) takes a payroll that is APPROVED or
\* PAID back to DRAFT.
C22_NeverBackToDraft ==
    \A p \in PayrollIds :
        payrollStatus[p] \in {"APPROVED", "PAID"} => payrollStatus'[p] # "DRAFT"

C23_WriteOnlyInDraft ==
    /\ \A p \in PayrollIds :
          (employeePayroll'[p] # employeePayroll[p] \/ payrollTotals'[p] # payrollTotals[p])
              => payrollStatus[p] = "DRAFT"
    /\ \A m \in MsgIds :
          handlerWrites'[m] # handlerWrites[m] => payrollStatus[PayrollOf(m)] = "DRAFT"

C24_RecheckAcksResolvedOnly ==
    \A m \in MsgIds :
        (handlers[m].pc = "catch" /\ settled'[m] = "ack")
            => payrollStatus[PayrollOf(m)] \in ResolvedStatuses

C24_DraftNeverAckedUnwritten ==
    \A m \in MsgIds :
        ( /\ Handled(m) /\ settled[m] = "ack"
          /\ handlers[m].atDelivery = "DRAFT"
          /\ payrollStatus[PayrollOf(m)] = "DRAFT" )
            => handlerWrites[m] >= 1

C24_RecheckAfterFailure ==
    []C24_DraftNeverAckedUnwritten /\ [][C24_RecheckAcksResolvedOnly]_vars

\* C25: a step that changes a payroll's lines, its totals or its count of
\* PAYROLL_GENERATED entries changes them together (the totals being those of
\* the new lines, with one new entry); no payroll holds two lines for one
\* employee; and what the handler's transaction applies for a DRAFT payroll is
\* complete: one line per active employee, the totals of those lines, one entry.
C25_WrittenTogether ==
    \A p \in PayrollIds :
        ( \/ employeePayroll'[p] # employeePayroll[p]
          \/ payrollTotals'[p] # payrollTotals[p]
          \/ auditLog'[<<"PAYROLL_GENERATED", p>>] # auditLog[<<"PAYROLL_GENERATED", p>>] )
            => /\ payrollTotals'[p] = generatedTotals(employeePayroll'[p])
               /\ auditLog'[<<"PAYROLL_GENERATED", p>>]
                     = auditLog[<<"PAYROLL_GENERATED", p>>] + 1

C25_OneLinePerEmployee ==
    \A p \in PayrollIds :
        \A r1 \in employeePayroll[p], r2 \in employeePayroll[p] :
            r1.employeeId = r2.employeeId => r1 = r2

C25_TransactionComplete ==
    \A p \in PayrollIds :
        (payrollStatus[p] = "DRAFT" /\ employeeActive # {})
            => LET hoursWorked ==
                       IF \E e \in employeeActive : Employee[e].payType = "HOURLY"
                       THEN hoursOnFile(p, CHOOSE e \in employeeActive :
                                               Employee[e].payType = "HOURLY")
                       ELSE None
                   w == generationWrite(employeeActive, hoursWorked, payrollTotals[p])
               IN  /\ {r.employeeId : r \in w.lines} = employeeActive
                   /\ Cardinality(w.lines) = Cardinality(employeeActive)
                   /\ w.totals = generatedTotals(w.lines)
                   /\ w.auditEntries = 1

C26_LegalWrites ==
    \A p \in PayrollIds :
        payrollStatus'[p] # payrollStatus[p]
            => <<payrollStatus[p], payrollStatus'[p]>>
                  \in {<<"DRAFT", "APPROVED">>, <<"APPROVED", "PAID">>}

C26_AppliedOnce ==
    \A p \in PayrollIds :
        /\ auditLog[<<"PAYROLL_APPROVED", p>>] <= 1
        /\ auditLog[<<"PAYROLL_PAID", p>>] <= 1

C26_ApproveAndPayFollowTable == []C26_AppliedOnce /\ [][C26_LegalWrites]_vars

\* ---------------------------------------------------------------- C27
\* C27: every message delivered to the consume callback is settled exactly
\* once: when the callback has finished, it made one call of ack or nack, not
\* both, and that call settled the message at the broker.
C27_OneSettleCall ==
    \A m \in MsgIds :
        handlers[m].pc = "done" => handlers[m].ackCalls + handlers[m].nackCalls = 1

C27_SettledWhenDone ==
    \A m \in MsgIds : handlers[m].pc = "done" => settled[m] \in {"ack", "nack"}

C27_SettledExactlyOnce == []C27_OneSettleCall /\ []C27_SettledWhenDone

\* ---------------------------------------------------------------- C28
\* close() was called while a connect() started by the reconnect timer was
\* waiting for amqp.connect, and this step completes the later of the two.
C28_ReconnectAndCloseComplete(p) ==
    /\ isExplicitlyClosing[p]
    /\ attemptsMade[p] > 0
    /\ connecting[p] > 0
    /\ connecting'[p] = 0
    /\ closePc'[p] = "idle"

\* C28: close() wins over an in-flight reconnect: when close() and the
\* reconnect attempt it overlapped have both completed, the manager holds no
\* connection, its last event is 'closed' and no reconnect timer is pending.
C28_CloseWinsOverReconnect ==
    [][\A p \in Procs :
          C28_ReconnectAndCloseComplete(p) =>
              /\ ~connection'[p]
              /\ emitted'[p] = "closed"
              /\ ~reconnectTimeout'[p]]_vars

\* ---------------------------------------------------------------- C29
\* Channel ch emits its 'error' / 'close' events in this step.
C29_EventOf(ch) == chans[ch].state = "open" /\ chans'[ch].state = "closed"

\* After an event of the channel cached for q the registry no longer returns
\* it, and the registry never returns a closed channel.
C29_RegistryReturnsOpenChannels ==
    \A q \in QueueNames :
        registry[q] # NoChannel => chans[registry[q]].state = "open"

\* The next getOrCreateChannel(q) that finds no channel cached creates a fresh
\* one, asserts q as durable and caches it.
C29_LazyRecreation ==
    [][\A c \in CallIds :
          /\ (calls[c].pc = "idle" /\ calls'[c].pc = "done")
                => registry[calls'[c].queue] = calls'[c].chan
          /\ (calls[c].pc = "asserting" /\ calls'[c].pc = "done")
                => /\ chans'[calls[c].chan] = [state |-> "open", queue |-> calls[c].queue]
                   /\ qArgs'[calls[c].queue] = PlainDurable
                   /\ registry'[calls[c].queue] = calls[c].chan]_vars

\* An event of a channel of q leaves the cached channels of other queues alone.
C29_OtherQueuesUnchanged ==
    [][\A ch \in ChanIds :
          C29_EventOf(ch) =>
              \A q \in QueueNames : q # chans[ch].queue => registry'[q] = registry[q]]_vars

\* An event of an old channel of q does not evict a newer channel cached for
\* q (createChannelResolves numbers the channels in the order it creates them).
C29_NewerChannelSurvives ==
    [][\A ch \in ChanIds :
          (C29_EventOf(ch) /\ registry[chans[ch].queue] > ch)
              => registry'[chans[ch].queue] = registry[chans[ch].queue]]_vars

\* C29: channel eviction and lazy recreation: after a channel event for q the
\* registry no longer returns that channel, the next getOrCreateChannel(q)
\* creates, asserts and caches a fresh one, the channels of other queues are
\* unchanged, and an event of an old channel of q never evicts a newer one.
C29_EvictionAndRecreation ==
    /\ []C29_RegistryReturnsOpenChannels
    /\ C29_LazyRecreation
    /\ C29_OtherQueuesUnchanged
    /\ C29_NewerChannelSurvives

\* ---------------------------------------------------------------- C30
\* At most one channel is open for a queue.
C30_OneChannelPerQueue ==
    \A q \in QueueNames :
        Cardinality({ch \in ChanIds : chans[ch].state = "open" /\ chans[ch].queue = q}) <= 1

\* The callers of one queue that hold open channels hold the same channel.
C30_CallersShareChannel ==
    \A c1, c2 \in CallIds :
        (/\ calls[c1].pc = "done" /\ calls[c2].pc = "done"
         /\ calls[c1].queue = calls[c2].queue
         /\ chans[calls[c1].chan].state = "open"
         /\ chans[calls[c2].chan].state = "open")
            => calls[c1].chan = calls[c2].chan

\* An open channel whose call has returned is the one cached for its queue.
C30_NoChannelOutsideRegistry ==
    \A ch \in ChanIds :
        (/\ chans[ch].state = "open"
         /\ \A c \in CallIds : ~(calls[c].pc = "asserting" /\ calls[c].chan = ch))
            => registry[chans[ch].queue] = ch

\* C30: one channel per queue under concurrent first use: when calls for the
\* same queue overlap while nothing is cached, one channel is created, all
\* callers use it, and no channel is created and left outside the registry.
C30_OneChannelUnderConcurrentFirstUse ==
    /\ []C30_CallersShareChannel
    /\ []C30_NoChannelOutsideRegistry
    /\ []C30_OneChannelPerQueue

====
